---- MODULE Spec2Model ----
(***************************************************************************)
(* The transaction admission pipeline of DDKCORE: TransactionPool and      *)
(* TransactionQueue (src/logic/newTransactionPool.ts) and the operations   *)
(* of the Transactions module that drive them (src/modules/transactions.ts)*)
(*                                                                         *)
(* Execution model: Node.js, one thread.  An async function runs           *)
(* atomically from one await on a collaborator (getOrCreateAccount,        *)
(* newVerify, newVerifyUnconfirmed, newApplyUnconfirmed,                   *)
(* newUndoUnconfirmed) to the next; at such an await any other handler or  *)
(* continuation may run.  Each in-flight async call is an entry of `tasks` *)
(* with the await it is suspended at.  A call of process() that is not     *)
(* awaited (the tail calls, Queue.push) runs synchronously up to its first *)
(* await and is part of the step that made it.                             *)
(***************************************************************************)
EXTENDS Integers, Sequences, FiniteSets, TLC

(***************************************************************************)
(* Bounds                                                                  *)
(***************************************************************************)
\* calls of the Transactions / TransactionPool interface made by the rest of
\* the node in one behaviour (the steps that resume a suspended call are not
\* counted: each call suspends finitely often)
MaxCalls == 5
\* async calls in flight at a time (process cycles, pushInPool, removals)
MaxTasks == 2

(***************************************************************************)
(* Transactions (helpers/types Transaction).  A transaction is identified  *)
(* by its id, the index in the table; its fields other than status never   *)
(* change.                                                                 *)
(***************************************************************************)
NoAddress == "undefined"

TransactionTable ==
    << [type |-> "SEND",      senderPublicKey |-> "pkA", recipientId |-> "B",
        timestamp |-> 1, amount |-> 10],
       [type |-> "VOTE",      senderPublicKey |-> "pkA", recipientId |-> NoAddress,
        timestamp |-> 2, amount |-> 0],
       [type |-> "SEND",      senderPublicKey |-> "pkB", recipientId |-> "A",
        timestamp |-> 3, amount |-> 5] >>

Tx == DOMAIN TransactionTable

Addresses == {"A", "B", NoAddress}

generateAddressByPublicKey(publicKey) ==
    CASE publicKey = "pkA" -> "A"
      [] publicKey = "pkB" -> "B"

TypeOf(trs) == TransactionTable[trs].type
SenderId(trs) == generateAddressByPublicKey(TransactionTable[trs].senderPublicKey)
RecipientId(trs) == TransactionTable[trs].recipientId

TransactionStatus ==
    {"CREATED", "QUEUED", "QUEUED_AS_CONFLICTED", "VERIFIED", "DECLINED",
     "PUT_IN_POOL", "UNCONFIRM_APPLIED"}

(***************************************************************************)
(* transactionSortFunc: the canonical order (type, timestamp, amount       *)
(* descending, id); negative when a sorts before b.                        *)
(***************************************************************************)
TypeCode(type) ==
    CASE type = "REFERRAL"  -> 0
      [] type = "SEND"      -> 10
      [] type = "SIGNATURE" -> 20
      [] type = "VOTE"      -> 60

transactionSortFunc(a, b) ==
    LET ta == TransactionTable[a]
        tb == TransactionTable[b]
    IN  IF TypeCode(ta.type) < TypeCode(tb.type) THEN -1
        ELSE IF TypeCode(ta.type) > TypeCode(tb.type) THEN 1
        ELSE IF ta.timestamp < tb.timestamp THEN -1
        ELSE IF ta.timestamp > tb.timestamp THEN 1
        ELSE IF ta.amount > tb.amount THEN -1
        ELSE IF ta.amount < tb.amount THEN 1
        ELSE IF a < b THEN -1
        ELSE IF a > b THEN 1
        ELSE 0

\* Array.prototype.sort(transactionSortFunc): a stable sort
RECURSIVE InsertSorted(_, _)
InsertSorted(x, sorted) ==
    IF sorted = << >> THEN << x >>
    ELSE IF transactionSortFunc(x, Head(sorted)) < 0 THEN << x >> \o sorted
    ELSE << Head(sorted) >> \o InsertSorted(x, Tail(sorted))

RECURSIVE Sort(_)
Sort(seq) ==
    IF seq = << >> THEN << >>
    ELSE InsertSorted(seq[Len(seq)], Sort(SubSeq(seq, 1, Len(seq) - 1)))

\* Array.prototype.indexOf, 1-based; 0 when absent
IndexOf(seq, x) ==
    IF \E i \in 1..Len(seq) : seq[i] = x
    THEN CHOOSE i \in 1..Len(seq) : seq[i] = x /\ \A j \in 1..(i - 1) : seq[j] # x
    ELSE 0

\* Array.prototype.filter(t => t.id !== trs.id)
Without(seq, trs) == SelectSeq(seq, LAMBDA t : t # trs)

Range(seq) == {seq[i] : i \in 1..Len(seq)}

RemoveAt(seq, i) == SubSeq(seq, 1, i - 1) \o SubSeq(seq, i + 1, Len(seq))

(***************************************************************************)
(* State                                                                   *)
(***************************************************************************)
VARIABLES
    pool,             \* TransactionPool.pool: the ids present in byId
    poolBySender,     \* TransactionPool.poolBySender: senderId -> array
    poolByRecipient,  \* TransactionPool.poolByRecipient: recipientId -> array
    poolLocked,       \* TransactionPool.locked
    queue,            \* TransactionQueue.queue
    conflictedQueue,  \* TransactionQueue.conflictedQueue (the transactions)
    queueLocked,      \* TransactionQueue.locked
    status,           \* trs.status of every transaction
    tasks,            \* the async calls in flight, each suspended at an await
    calls,            \* interface calls made so far
    hung,             \* the event loop is stuck in a synchronous loop
    sequencer,        \* the Sequence (helpers/sequence.js) and its event loop
    verifier,         \* the block handed to blocks/verify.js and the outcome
    chain,            \* __private.lastNBlockIds, the blocks table and the query
    processor         \* the processBlock call under way and what it has done

vars == << pool, poolBySender, poolByRecipient, poolLocked, queue,
           conflictedQueue, queueLocked, status, tasks, calls, hung,
           sequencer, verifier, chain, processor >>

\* the state as one value, threaded through the operators that model methods;
\* ev collects what the operators applied to it did: collaborator calls,
\* messages sent, values returned
Cur ==
    [pool |-> pool, poolBySender |-> poolBySender,
     poolByRecipient |-> poolByRecipient, poolLocked |-> poolLocked,
     queue |-> queue, conflictedQueue |-> conflictedQueue,
     queueLocked |-> queueLocked, status |-> status, tasks |-> tasks,
     ev |-> << >>, hung |-> hung]

Event(e, trs, res, why, gone, s) ==
    [e |-> e, trs |-> trs, res |-> res, why |-> why, gone |-> gone,
     inPool |-> trs \in s.pool, had |-> FALSE, list |-> << >>]

Log(s, e) == [s EXCEPT !.ev = Append(@, e)]

NoTrs == 0

Task(kind, pc, trs) ==
    [kind |-> kind, pc |-> pc, trs |-> trs, rest |-> << >>, outer |-> << >>,
     phase |-> "", owner |-> NoTrs, live |-> << >>, acc |-> << >>,
     broadcast |-> kind = "process", gone |-> FALSE, snap |-> {}]

(***************************************************************************)
(* TransactionPool                                                         *)
(***************************************************************************)
Has(s, trs) == trs \in s.pool

getTransactionsByRecipientId(s, recipientId) == s.poolByRecipient[recipientId]

getTransactionsBySenderId(s, senderId) == s.poolBySender[senderId]

\* the detector without the ordering rule of its last step
isPotentialConflictNoOrder(s, trs) ==
    LET senderId == generateAddressByPublicKey(TransactionTable[trs].senderPublicKey)
        dependTransactions == s.poolByRecipient[senderId] \o s.poolBySender[senderId]
    IN  IF Len(dependTransactions) = 0 THEN FALSE
        ELSE IF TypeOf(trs) = "SIGNATURE" THEN TRUE
        ELSE IF /\ TypeOf(trs) = "VOTE"
                /\ \E i \in 1..Len(dependTransactions) :
                       TypeOf(dependTransactions[i]) = "VOTE" THEN TRUE
        ELSE FALSE

isPotentialConflict(s, trs) ==
    LET senderId == generateAddressByPublicKey(TransactionTable[trs].senderPublicKey)
        recipientTrs == s.poolByRecipient[senderId]
        senderTrs == s.poolBySender[senderId]
        dependTransactions == recipientTrs \o senderTrs
        sorted == Sort(Append(dependTransactions, trs))
    IN  IF Len(dependTransactions) = 0 THEN FALSE
        ELSE IF TypeOf(trs) = "SIGNATURE" THEN TRUE
        ELSE IF /\ TypeOf(trs) = "VOTE"
                /\ \E i \in 1..Len(dependTransactions) :
                       TypeOf(dependTransactions[i]) = "VOTE" THEN TRUE
        ELSE IF /\ TypeOf(trs) = "REFERRAL"
                /\ \E i \in 1..Len(dependTransactions) :
                       TypeOf(dependTransactions[i]) = "REFERRAL" THEN TRUE
        ELSE IndexOf(sorted, trs) # Len(sorted)

\* task.snap is bookkeeping: byId as popSortedUnconfirmedTransactions found it.
\* An array a loop iterates is the bucket object itself until a remove
\* replaces the bucket by a filtered copy: Array.push on the bucket is seen by
\* the loops still holding it.
AppendToLive(tasksNow, bucket, trs) ==
    [i \in DOMAIN tasksNow |->
        IF tasksNow[i].live = bucket
        THEN [tasksNow[i] EXCEPT !.rest = Append(@, trs)]
        ELSE tasksNow[i]]

DropLive(tasksNow, buckets) ==
    [i \in DOMAIN tasksNow |->
        IF tasksNow[i].live \in buckets
        THEN [tasksNow[i] EXCEPT !.live = << >>]
        ELSE tasksNow[i]]

\* bookkeeping for the pushes of trs suspended in newApplyUnconfirmed: trs
\* has left byId under them
MarkGone(tasksNow, trs) ==
    [i \in DOMAIN tasksNow |->
        IF tasksNow[i].pc = "newApplyUnconfirmed" /\ tasksNow[i].trs = trs
        THEN [tasksNow[i] EXCEPT !.gone = TRUE]
        ELSE tasksNow[i]]

\* push, lines 92-105: the insertion into the three indexes
PushInsert(s, trs) ==
    LET s1 == [s EXCEPT !.pool = @ \cup {trs},
                        !.status[trs] = "PUT_IN_POOL",
                        !.poolBySender[SenderId(trs)] = Append(@, trs),
                        !.tasks = AppendToLive(@, << "S", SenderId(trs) >>, trs)]
    IN  IF TypeOf(trs) = "SEND"
        THEN [s1 EXCEPT !.poolByRecipient[RecipientId(trs)] = Append(@, trs),
                        !.tasks = AppendToLive(@, << "R", RecipientId(trs) >>, trs)]
        ELSE s1

\* push with the lock test `if (this.locked)`: force is ignored
PoolPushIgnoresForce(s, trs, broadcast, force) ==
    IF s.poolLocked
    THEN [s |-> Log(s, Event("push", trs, FALSE, "locked", FALSE, s)), await |-> FALSE]
    ELSE IF Has(s, trs)
    THEN [s |-> Log(s, Event("push", trs, FALSE, "has", FALSE, s)), await |-> FALSE]
    ELSE IF isPotentialConflict(s, trs)
    THEN LET s1 == [s EXCEPT !.pool = @ \ {trs}]
         IN  [s |-> Log(s1, Event("push", trs, FALSE, "conflict", FALSE, s1)),
              await |-> FALSE]
    ELSE LET s1 == PushInsert(s, trs)
         IN  [s |-> Log(s1, Event("newApplyUnconfirmed", trs, FALSE, "", FALSE, s1)),
              await |-> TRUE]

\* push, lines 77-108: up to the await of newApplyUnconfirmed.  await = FALSE
\* means push returned false without suspending.
PoolPush(s, trs, broadcast, force) ==
    IF s.poolLocked /\ ~force
    THEN [s |-> Log(s, Event("push", trs, FALSE, "locked", FALSE, s)), await |-> FALSE]
    ELSE IF Has(s, trs)
    THEN [s |-> Log(s, Event("push", trs, FALSE, "has", FALSE, s)), await |-> FALSE]
    ELSE IF isPotentialConflict(s, trs)
    THEN LET s1 == [s EXCEPT !.pool = @ \ {trs}]
         IN  [s |-> Log(s1, Event("push", trs, FALSE, "conflict", FALSE, s1)),
              await |-> FALSE]
    ELSE LET s1 == PushInsert(s, trs)
         IN  [s |-> Log(s1, Event("newApplyUnconfirmed", trs, FALSE, "", FALSE, s1)),
              await |-> TRUE]

\* the catch block without `delete this.pool[trs.id]`
PushRollbackKeepsById(s, trs) ==
    [s EXCEPT !.status[trs] = "DECLINED",
              !.tasks = MarkGone(@, trs)]

\* push, catch block, lines 111-117
PushRollback(s, trs) ==
    [s EXCEPT !.pool = @ \ {trs},
              !.status[trs] = "DECLINED",
              !.tasks = MarkGone(@, trs)]

\* push, lines 109-122: after newApplyUnconfirmed settled (ok: resolved).
\* gone is the bookkeeping flag of the suspended push.
PushSettled(s, trs, broadcast, ok, gone) ==
    IF ok
    THEN LET s1 == [s EXCEPT !.status[trs] = "UNCONFIRM_APPLIED"]
             s2 == IF broadcast
                   THEN Log(s1, Event("transactionPutInPool", trs, TRUE, "", FALSE, s1))
                   ELSE s1
         IN  Log(s2, Event("push", trs, TRUE, "applied", gone, s2))
    ELSE LET s1 == PushRollback(s, trs)
         IN  Log(s1, Event("push", trs, FALSE, "failed", gone, s1))

\* remove without the test of byId
PoolRemoveUnchecked(s, trs) ==
    [s |-> Log(s, Event("newUndoUnconfirmed", trs, FALSE, "", FALSE, s)),
     await |-> TRUE]

\* remove, lines 125-131: up to the await of newUndoUnconfirmed
PoolRemove(s, trs) ==
    IF ~ Has(s, trs)
    THEN [s |-> Log(s, Event("remove", trs, FALSE, "absent", FALSE, s)), await |-> FALSE]
    ELSE [s |-> Log(s, Event("newUndoUnconfirmed", trs, FALSE, "", FALSE, s)),
          await |-> TRUE]

\* remove without the filter of the recipient's bucket
RemoveSettledKeepsRecipient(s, trs, ok) ==
    LET s1 == [s EXCEPT !.pool = @ \ {trs},
                        !.poolBySender[SenderId(trs)] = Without(@, trs),
                        !.tasks = MarkGone(DropLive(@, {<< "S", SenderId(trs) >>,
                                                       << "R", RecipientId(trs) >>}), trs)]
    IN  Log(s1, Event("remove", trs, TRUE, IF ok THEN "undone" ELSE "undoFailed", FALSE, s1))

\* remove, lines 132-143: after newUndoUnconfirmed settled; a rejection is
\* logged and swallowed
RemoveSettled(s, trs, ok) ==
    LET s1 == [s EXCEPT !.pool = @ \ {trs},
                        !.poolBySender[SenderId(trs)] = Without(@, trs),
                        !.poolByRecipient[RecipientId(trs)] = Without(@, trs),
                        !.tasks = MarkGone(DropLive(@, {<< "S", SenderId(trs) >>,
                                                       << "R", RecipientId(trs) >>}), trs)]
    IN  Log(s1, Event("remove", trs, TRUE, IF ok THEN "undone" ELSE "undoFailed", FALSE, s1))

getSize(s) == Cardinality(s.pool)

\* Object.values(this.pool).sort(transactionSortFunc).slice(0, limit)
RECURSIVE SetToSortedSeq(_)
SetToSortedSeq(S) ==
    IF S = {} THEN << >>
    ELSE LET x == CHOOSE x \in S : TRUE
         IN  InsertSorted(x, SetToSortedSeq(S \ {x}))

Slice(seq, limit) == SubSeq(seq, 1, IF limit < Len(seq) THEN limit ELSE Len(seq))

(***************************************************************************)
(* TransactionQueue                                                        *)
(***************************************************************************)
\* pushInConflictedQueue that leaves the status of trs as it was
pushInConflictedQueueKeepsStatus(s, trs) ==
    [s EXCEPT !.conflictedQueue = Append(@, trs)]

pushInConflictedQueue(s, trs) ==
    [s EXCEPT !.conflictedQueue = Append(@, trs),
              !.status[trs] = "QUEUED_AS_CONFLICTED"]

\* process, lines 312-330: from the call to the first await (or the return),
\* the tail call after a conflict included
RECURSIVE Process(_)
Process(s) ==
    IF Len(s.queue) = 0 \/ s.queueLocked THEN s
    ELSE LET trs == Head(s.queue)
             s1 == [s EXCEPT !.queue = Tail(@)]
         IN  IF Has(s1, trs) THEN s1
             ELSE IF isPotentialConflict(s1, trs)
             THEN Process(pushInConflictedQueue(s1, trs))
             ELSE [s1 EXCEPT !.tasks =
                       Append(@, Task("process", "getOrCreateAccount", trs))]

\* TransactionQueue.push without the sort of line 292
QueuePushNoSort(s, trs) ==
    LET s1 == [s EXCEPT !.status[trs] = "QUEUED", !.queue = Append(@, trs)]
    IN  IF Len(s1.queue) = 1 THEN Process(s1) ELSE s1

\* TransactionQueue.push, lines 286-294
QueuePush(s, trs) ==
    LET s1 == [s EXCEPT !.status[trs] = "QUEUED", !.queue = Append(@, trs)]
    IN  IF Len(s1.queue) = 1 THEN Process(s1)
        ELSE [s1 EXCEPT !.queue = Sort(@)]

\* reshuffle, lines 306-310.  One turn of the loop that leaves the state as it
\* found it is repeated for ever: the call never returns.
RECURSIVE Reshuffle(_)
Reshuffle(s) ==
    IF Len(s.conflictedQueue) = 0 THEN s
    ELSE LET n == Len(s.conflictedQueue)
             trs == s.conflictedQueue[n]
             s1 == QueuePush([s EXCEPT !.conflictedQueue = SubSeq(@, 1, n - 1)], trs)
         IN  IF s1 = s THEN [s EXCEPT !.hung = TRUE]
             ELSE Reshuffle(s1)

\* process without `this.push(trs)` before the tail call
RequeueDropsTrs(s, trs) == Process(s)

\* process, lines 352-353: this.push(trs); this.process()
Requeue(s, trs) == Process(QueuePush(s, trs))

WithoutTask(s, i) == [s EXCEPT !.tasks = RemoveAt(@, i)]

Spawn(s, task) == [s EXCEPT !.tasks = Append(@, task)]

\* a failed verification that sends no pool/verify message
VerifyFailedSilently(s, trs) ==
    Process([s EXCEPT !.status[trs] = "DECLINED"])

\* process, lines 335-340 and verify, lines 360-380: a phase of verify threw
VerifyFailed(s, trs) ==
    LET s1 == Log(s, Event("pool/verify", trs, FALSE, SenderId(trs), FALSE, s))
    IN  Process([s1 EXCEPT !.status[trs] = "DECLINED"])

\* verify, lines 382-386 and process, lines 342-353: both phases passed
Verified(s, trs) ==
    LET s1 == Log(s, Event("pool/verify", trs, TRUE, SenderId(trs), FALSE, s))
        s2 == [s1 EXCEPT !.status[trs] = "VERIFIED"]
        r  == PoolPush(s2, trs, TRUE, FALSE)
    IN  IF ~ s2.queueLocked
        THEN IF r.await
             THEN Spawn(r.s, Task("process", "newApplyUnconfirmed", trs))
             ELSE Requeue(r.s, trs)
        ELSE Requeue(s2, trs)

\* process, lines 346-353: pool.push settled
ProcessPushSettled(s, trs, ok, gone) ==
    LET s1 == PushSettled(s, trs, TRUE, ok, gone)
    IN  IF ok THEN Process(s1) ELSE Requeue(s1, trs)

\* Transactions.pushInPool, lines 135-139: the loop from `transactions` on,
\* up to the next push that suspends
RECURSIVE PushInPoolLoop(_, _)
PushInPoolLoop(s, transactions) ==
    IF transactions = << >> THEN s
    ELSE LET r == PoolPush(s, Head(transactions), FALSE, TRUE)
         IN  IF r.await
             THEN Spawn(r.s, [Task("pushInPool", "newApplyUnconfirmed", Head(transactions))
                                 EXCEPT !.rest = Tail(transactions)])
             ELSE PushInPoolLoop(r.s, Tail(transactions))

\* The removal loops: popSortedUnconfirmedTransactions (lines 160-167),
\* removeTransactionBySenderId / ByRecipientId (lines 53-75) and
\* Transactions.removeFromPool (lines 110-133).  task.rest is what the
\* innermost for-of has still to visit, task.outer what removeFromPool's own
\* loop has still to visit, task.acc the list the call will return.
RECURSIVE RemoveLoop(_, _)
RECURSIVE RemoveFromPoolNext(_, _)
RemoveLoop(s, task) ==
    IF task.rest = << >>
    THEN CASE task.kind = "remove" -> s
           [] task.kind = "popSorted" ->
                  Log(s, [Event("popSorted", NoTrs, TRUE, "", FALSE, s)
                             EXCEPT !.list = task.acc])
           [] task.kind = "removeFromPool" /\ task.phase = "sender" ->
                  \* removeTransactionByRecipientId(trs.senderId)
                  RemoveLoop(s, [task EXCEPT
                      !.phase = "recipient",
                      !.rest = getTransactionsByRecipientId(s, SenderId(task.owner)),
                      !.live = << "R", SenderId(task.owner) >>])
           [] task.kind = "removeFromPool" /\ task.phase # "sender" ->
                  RemoveFromPoolNext(s, task)
    ELSE LET trs == Head(task.rest)
             r == PoolRemove(s, trs)
         IN  IF r.await
             THEN Spawn(r.s, [task EXCEPT !.pc = "newUndoUnconfirmed", !.trs = trs,
                                          !.rest = Tail(@)])
             ELSE RemoveLoop(r.s, [task EXCEPT !.rest = Tail(@)])

RemoveFromPoolNext(s, task) ==
    IF task.outer = << >>
    THEN Log(s, [Event("removeFromPool", NoTrs, TRUE, "", FALSE, s)
                    EXCEPT !.list = task.acc])
    ELSE LET trs == Head(task.outer)
         IN  IF task.phase = "single"
             THEN RemoveLoop(s, [task EXCEPT !.outer = Tail(@), !.rest = << trs >>,
                                             !.live = << >>])
             ELSE RemoveLoop(s, [task EXCEPT
                      !.outer = Tail(@), !.owner = trs, !.phase = "sender",
                      !.rest = getTransactionsBySenderId(s, SenderId(trs)),
                      !.live = << "S", SenderId(trs) >>])

\* after a remove settled inside one of the loops: `if (removed) push(trs)`
RemoveLoopSettled(s, task, ok) ==
    LET s1 == RemoveSettled(s, task.trs, ok)
        t1 == IF task.kind = "removeFromPool"
              THEN [task EXCEPT !.acc = Append(@, task.trs)]
              ELSE task
        t2 == IF t1.live \in {<< "S", SenderId(task.trs) >>,
                               << "R", RecipientId(task.trs) >>}
              THEN [t1 EXCEPT !.live = << >>]
              ELSE t1
    IN  RemoveLoop(s1, t2)

popSortedUnconfirmedTransactions(s, limit) ==
    LET transactions == Slice(SetToSortedSeq(s.pool), limit)
    IN  RemoveLoop(s, [Task("popSorted", "", NoTrs) EXCEPT
                          !.rest = transactions, !.acc = transactions,
                          !.snap = s.pool])

removeFromPool(s, transactions, withDepend) ==
    RemoveFromPoolNext(s, [Task("removeFromPool", "", NoTrs) EXCEPT
                              !.outer = transactions,
                              !.phase = IF withDepend THEN "recipient" ELSE "single"])

\* TransactionPool.pop, lines 150-154: remove is called and not awaited
Pop(s, trs) == RemoveLoop(s, [Task("remove", "", NoTrs) EXCEPT !.rest = << trs >>])

(***************************************************************************)
(* Sequence (helpers/sequence.js).  Its state is one record: the array      *)
(* `sequence`, every task added so far, and what the event loop holds for   *)
(* it: the setImmediate callbacks in the order they were scheduled and the  *)
(* number of pending setTimeout(nextSequenceTick, 600) timers.  A worker is *)
(* "running" from its invocation until it first calls the callback          *)
(* ("finished") or fails without calling it ("failed").                     *)
(***************************************************************************)
\* tasks handed to add() in one behaviour
MaxAdded == 3
\* times one worker invokes the callback it was given
MaxCallbacks == 2

TaskIds == 1..MaxAdded

NoTask ==
    [state |-> "none", hasDone |-> FALSE, callbacks |-> 0, err |-> FALSE,
     delivered |-> 0]

\* the constructor, lines 11-29: setImmediate(nextSequenceTick)
SequenceFresh ==
    [sequence |-> << >>,
     task |-> [t \in TaskIds |-> NoTask],
     immediates |-> << [kind |-> "tick", task |-> 0, err |-> FALSE] >>,
     timers |-> 0]

Immediate(kind, t, err) == [kind |-> kind, task |-> t, err |-> err]

\* Sequence.prototype.count
count(q) == Len(q.sequence)

\* Sequence.prototype.add: a task is pushed when worker is a function
SequenceAdd(q, isFunction, hasDone) ==
    LET t == Cardinality({u \in TaskIds : q.task[u].state # "none"}) + 1
    IN  IF isFunction
        THEN [q EXCEPT !.sequence = Append(@, t),
                       !.task[t] = [NoTask EXCEPT !.state = "waiting",
                                                  !.hasDone = hasDone]]
        ELSE q

\* Sequence.prototype.__tick with cb = () => setTimeout(nextSequenceTick, 600).
\* throws: the worker fails before it calls the callback; the exception
\* leaves __tick and nextSequenceTick and nothing is scheduled.
Tick(q, throws) ==
    IF q.sequence = << >>
    THEN [q EXCEPT !.immediates = Append(@, Immediate("cb", 0, FALSE))]
    ELSE LET t == Head(q.sequence)
         IN  [q EXCEPT !.sequence = Tail(@),
                       !.task[t].state = IF throws THEN "failed" ELSE "running",
                       !.task[t].err = throws]

\* the callback of __tick, lines 41-46, invoked by the worker of t
Callback(q, t, err) ==
    LET q1 == [q EXCEPT !.task[t].state = "finished",
                        !.task[t].callbacks = @ + 1,
                        !.task[t].err = @ \/ err]
        q2 == IF q.task[t].hasDone
              THEN [q1 EXCEPT !.immediates = Append(@, Immediate("done", t, err))]
              ELSE q1
    IN  [q2 EXCEPT !.immediates = Append(@, Immediate("cb", 0, FALSE))]

\* the event loop runs the oldest setImmediate callback
RunHead(q, throws) ==
    LET head == Head(q.immediates)
        q1 == [q EXCEPT !.immediates = Tail(@)]
    IN  CASE head.kind = "tick" -> Tick(q1, throws)
          [] head.kind = "cb"   -> [q1 EXCEPT !.timers = @ + 1]
          [] head.kind = "done" -> [q1 EXCEPT !.task[head.task].delivered = @ + 1]

(***************************************************************************)
(* Block verification (modules/blocks/verify.js).  A check takes and       *)
(* yields r = [block, errors, forks, ran]: the block (verify.js assigns    *)
(* its height, id and reward), result.errors, the forks signalled to the   *)
(* delegates module and, as bookkeeping, the names of the checks run.  The *)
(* answers of the collaborators (block crypto, transaction logic,          *)
(* blockVersion) are part of the block handed in.                          *)
(***************************************************************************)
NoBlock == "null"

\* helpers/constants.js and helpers/exceptions.js, scaled to the blocks below
MASTER_NODE_MIGRATED_BLOCK == 2
maxPayloadLength == 1
maxTxsPerBlock == 1
blockSlotWindow == 2
blockRewards == {"b2"}

\* helpers/slots.js: the slot of a timestamp
SlotInterval == 2
getSlotNumber(timestamp) == timestamp \div SlotInterval

\* logic/blockReward.js
calcReward(height) == IF height < 1 THEN 0 ELSE 5

\* modules.blocks.lastBlock.get() without its height, the application time
\* and __private.lastNBlockIds during the verification
LastBlockId == "b0"
LastBlockTimestamp == 2
Now == 7
lastNBlockIds == << "b1" >>

\* the transactions a block can carry; bytes: getBytes returns (or throws)
BlockTransactions ==
    [x |-> [id |-> "x", amount |-> 10, fee |-> 1, bytes |-> TRUE],
     y |-> [id |-> "y", amount |-> 10, fee |-> 1, bytes |-> TRUE],
     z |-> [id |-> "z", amount |-> 10, fee |-> 1, bytes |-> FALSE]]

Payloads ==
    {<< >>, << "x" >>, << "x", "y" >>, << "x", "x" >>, << "x", "x", "x" >>, << "z" >>}

\* the blocks handed to verifyBlock / verifyReceipt and the height of the
\* last block at that time.  signature and getId are what
\* logic.block.verifySignature and logic.block.getId answer for the block.
Blocks ==
    [id : {"b1", "b2"},
     previousBlock : {NoBlock, "b0", "b9"},
     timestamp : {0, 2, 4, 6, 8},
     versionValid : BOOLEAN,
     signature : {"valid", "invalid", "throws"},
     getId : {"b1", "b2", "throws"},
     reward : {0, 5},
     transactions : Payloads,
     numberOfTransactions : {1, 2},
     totalAmount : {10, 20},
     totalFee : {1, 2},
     payloadHash : {<< "x" >>, << "x", "y" >>},
     payloadLength : {1, 2},
     height : {0}]

LastHeights == {0, 1, 2, 21000000}

Error(msg, about) == [msg |-> msg, about |-> about]

Ran(r, name) == [r EXCEPT !.ran = Append(@, name)]

Fail(r, msg, about) == [r EXCEPT !.errors = Append(@, Error(msg, about))]

setHeight(block, lastHeight) == [block EXCEPT !.height = lastHeight + 1]

verifySignature(r0) ==
    LET r == Ran(r0, "verifySignature")
        r1 == IF r.block.signature = "throws"
              THEN Fail(r, "verifySignature threw", "") ELSE r
    IN  IF r.block.signature # "valid" /\ r.block.height > MASTER_NODE_MIGRATED_BLOCK
        THEN Fail(r1, "Failed to verify block signature", "")
        ELSE r1

verifyPreviousBlock(r0) ==
    LET r == Ran(r0, "verifyPreviousBlock")
    IN  IF r.block.previousBlock = NoBlock /\ r.block.height # 1
        THEN Fail(r, "Invalid previous block", "")
        ELSE r

verifyAgainstLastNBlockIds(r0) ==
    LET r == Ran(r0, "verifyAgainstLastNBlockIds")
    IN  IF IndexOf(lastNBlockIds, r.block.id) # 0
        THEN Fail(r, "Block already exists in chain", "")
        ELSE r

verifyVersion(r0) ==
    LET r == Ran(r0, "verifyVersion")
    IN  IF ~ r.block.versionValid THEN Fail(r, "Invalid block version", "") ELSE r

verifyReward(r0) ==
    LET r == Ran(r0, "verifyReward")
        late == r.block.height > 21000000
        expectedReward == IF late THEN 0 ELSE calcReward(r.block.height)
        r1 == IF late THEN [r EXCEPT !.block.reward = 0] ELSE r
    IN  IF /\ r1.block.height # 1
           /\ expectedReward # r1.block.reward
           /\ r1.block.id \notin blockRewards
        THEN Fail(r1, "Invalid block reward", "")
        ELSE r1

verifyId(r0) ==
    LET r == Ran(r0, "verifyId")
    IN  IF r.block.getId = "throws"
        THEN Fail(r, "getId threw", "")
        ELSE [r EXCEPT !.block.id = r.block.getId]

\* the loop of verifyPayload without the test of appliedTransactions
RECURSIVE PayloadLoopNoDuplicates(_, _, _)
PayloadLoopNoDuplicates(transactions, i, acc) ==
    IF i > Len(transactions) THEN acc
    ELSE LET transaction == BlockTransactions[transactions[i]]
             a1 == IF ~ transaction.bytes
                   THEN [acc EXCEPT !.errors = Append(@, Error("getBytes threw", ""))]
                   ELSE acc
             a3 == [a1 EXCEPT
                       !.appliedTransactions = @ \cup {transaction.id},
                       !.payloadHash = IF transaction.bytes
                                       THEN Append(@, transaction.id) ELSE @,
                       !.totalAmount = @ + transaction.amount,
                       !.totalFee = @ + transaction.fee]
         IN  PayloadLoopNoDuplicates(transactions, i + 1, a3)

\* verifyPayload, the loop of lines 285-303 over transactions[i..]: acc holds
\* the running digest, appliedTransactions, totalAmount, totalFee and errors
RECURSIVE PayloadLoop(_, _, _)
PayloadLoop(transactions, i, acc) ==
    IF i > Len(transactions) THEN acc
    ELSE LET transaction == BlockTransactions[transactions[i]]
             a1 == IF ~ transaction.bytes
                   THEN [acc EXCEPT !.errors = Append(@, Error("getBytes threw", ""))]
                   ELSE acc
             a2 == IF transaction.id \in a1.appliedTransactions
                   THEN [a1 EXCEPT !.errors = Append(@,
                            Error("Encountered duplicate transaction", transaction.id))]
                   ELSE a1
             a3 == [a2 EXCEPT
                       !.appliedTransactions = @ \cup {transaction.id},
                       !.payloadHash = IF transaction.bytes
                                       THEN Append(@, transaction.id) ELSE @,
                       !.totalAmount = @ + transaction.amount,
                       !.totalFee = @ + transaction.fee]
         IN  PayloadLoop(transactions, i + 1, a3)

\* verifyPayload that applies the four comparisons at every height
verifyPayloadAnyHeight(r0) ==
    LET r == Ran(r0, "verifyPayload")
        block == r.block
        r1 == IF block.payloadLength > maxPayloadLength
              THEN Fail(r, "Payload length is too long", "") ELSE r
        r2 == IF Len(block.transactions) # block.numberOfTransactions
              THEN Fail(r1, "Included transactions do not match block transactions count", "")
              ELSE r1
        r3 == IF Len(block.transactions) > maxTxsPerBlock
              THEN Fail(r2, "Number of transactions exceeds maximum per block", "")
              ELSE r2
        acc == PayloadLoop(block.transactions, 1,
                           [errors |-> r3.errors, appliedTransactions |-> {},
                            payloadHash |-> << >>, totalAmount |-> 0, totalFee |-> 0])
        r4 == [r3 EXCEPT !.errors = acc.errors]
        r5 == IF acc.payloadHash # block.payloadHash
              THEN Fail(r4, "Invalid payload hash", "") ELSE r4
        r6 == IF acc.totalAmount # block.totalAmount
              THEN Fail(r5, "Invalid total amount", "") ELSE r5
    IN  IF acc.totalFee # block.totalFee
        THEN Fail(r6, "Invalid total fee", "") ELSE r6

verifyPayload(r0) ==
    LET r == Ran(r0, "verifyPayload")
        block == r.block
        migrated == block.height > MASTER_NODE_MIGRATED_BLOCK
        r1 == IF block.payloadLength > maxPayloadLength
              THEN Fail(r, "Payload length is too long", "") ELSE r
        r2 == IF Len(block.transactions) # block.numberOfTransactions /\ migrated
              THEN Fail(r1, "Included transactions do not match block transactions count", "")
              ELSE r1
        r3 == IF Len(block.transactions) > maxTxsPerBlock
              THEN Fail(r2, "Number of transactions exceeds maximum per block", "")
              ELSE r2
        acc == PayloadLoop(block.transactions, 1,
                           [errors |-> r3.errors, appliedTransactions |-> {},
                            payloadHash |-> << >>, totalAmount |-> 0, totalFee |-> 0])
        r4 == [r3 EXCEPT !.errors = acc.errors]
        r5 == IF acc.payloadHash # block.payloadHash /\ migrated
              THEN Fail(r4, "Invalid payload hash", "") ELSE r4
        r6 == IF acc.totalAmount # block.totalAmount /\ migrated
              THEN Fail(r5, "Invalid total amount", "") ELSE r5
    IN  IF acc.totalFee # block.totalFee /\ migrated
        THEN Fail(r6, "Invalid total fee", "") ELSE r6

\* verifyForkOne that also takes a missing previousBlock for a fork
verifyForkOneWhenMissing(r0) ==
    LET r == Ran(r0, "verifyForkOne")
    IN  IF r.block.previousBlock # LastBlockId
        THEN Fail([r EXCEPT !.forks = Append(@, 1)], "Invalid previous block",
                  r.block.previousBlock)
        ELSE r

verifyForkOne(r0) ==
    LET r == Ran(r0, "verifyForkOne")
    IN  IF r.block.previousBlock # NoBlock /\ r.block.previousBlock # LastBlockId
        THEN Fail([r EXCEPT !.forks = Append(@, 1)], "Invalid previous block",
                  r.block.previousBlock)
        ELSE r

\* verifyBlockSlot that accepts the slot of the last block
verifyBlockSlotSameSlot(r0) ==
    LET r == Ran(r0, "verifyBlockSlot")
        blockSlotNumber == getSlotNumber(r.block.timestamp)
        lastBlockSlotNumber == getSlotNumber(LastBlockTimestamp)
    IN  IF blockSlotNumber > getSlotNumber(Now) \/ blockSlotNumber < lastBlockSlotNumber
        THEN Fail(r, "Invalid block timestamp", "")
        ELSE r

verifyBlockSlot(r0) ==
    LET r == Ran(r0, "verifyBlockSlot")
        blockSlotNumber == getSlotNumber(r.block.timestamp)
        lastBlockSlotNumber == getSlotNumber(LastBlockTimestamp)
    IN  IF blockSlotNumber > getSlotNumber(Now) \/ blockSlotNumber <= lastBlockSlotNumber
        THEN Fail(r, "Invalid block timestamp", "")
        ELSE r

\* verifyBlockSlotWindow that refuses the oldest slot of the window
verifyBlockSlotWindowExclusive(r0) ==
    LET r == Ran(r0, "verifyBlockSlotWindow")
        currentApplicationSlot == getSlotNumber(Now)
        blockSlot == getSlotNumber(r.block.timestamp)
        r1 == IF currentApplicationSlot - blockSlot >= blockSlotWindow
              THEN Fail(r, "Block slot is too old", "") ELSE r
    IN  IF currentApplicationSlot < blockSlot
        THEN Fail(r1, "Block slot is in the future", "")
        ELSE r1

verifyBlockSlotWindow(r0) ==
    LET r == Ran(r0, "verifyBlockSlotWindow")
        currentApplicationSlot == getSlotNumber(Now)
        blockSlot == getSlotNumber(r.block.timestamp)
        r1 == IF currentApplicationSlot - blockSlot > blockSlotWindow
              THEN Fail(r, "Block slot is too old", "") ELSE r
    IN  IF currentApplicationSlot < blockSlot
        THEN Fail(r1, "Block slot is in the future", "")
        ELSE r1

\* Array.prototype.reverse
Reverse(list) == [i \in 1..Len(list) |-> list[Len(list) + 1 - i]]

Unverified(block, lastHeight) ==
    [block |-> setHeight(block, lastHeight), errors |-> << >>, forks |-> << >>,
     ran |-> << >>, verified |-> FALSE]

Concluded(r) ==
    [r EXCEPT !.verified = Len(r.errors) = 0, !.errors = Reverse(r.errors)]

\* verifyReceipt that returns at the first check that recorded an error
verifyReceiptFirstError(block, lastHeight) ==
    LET r1 == verifySignature(Unverified(block, lastHeight))
        r2 == IF r1.errors # << >> THEN r1 ELSE verifyPreviousBlock(r1)
        r3 == IF r2.errors # << >> THEN r2 ELSE verifyAgainstLastNBlockIds(r2)
        r4 == IF r3.errors # << >> THEN r3 ELSE verifyBlockSlotWindow(r3)
        r5 == IF r4.errors # << >> THEN r4 ELSE verifyVersion(r4)
        r6 == IF r5.errors # << >> THEN r5 ELSE verifyId(r5)
    IN  Concluded(IF r6.errors # << >> THEN r6 ELSE verifyPayload(r6))

verifyReceipt(block, lastHeight) ==
    Concluded(
        verifyPayload(
        verifyId(
        verifyVersion(
        verifyBlockSlotWindow(
        verifyAgainstLastNBlockIds(
        verifyPreviousBlock(
        verifySignature(Unverified(block, lastHeight)))))))))

verifyBlock(block, lastHeight) ==
    Concluded(
        verifyBlockSlot(
        verifyForkOne(
        verifyPayload(
        verifyId(
        verifyVersion(
        verifyPreviousBlock(
        verifySignature(Unverified(block, lastHeight)))))))))

\* nothing has been handed to the verifier
VerifierIdle == [call |-> "none"]

(***************************************************************************)
(* __private.lastNBlockIds (modules/blocks/verify.js): the ids of the last *)
(* blockSlotWindow accepted blocks, fed by onNewBlock and seeded by        *)
(* onBlockchainReady from the blocks table.  chain = [lastNBlockIds,       *)
(* blocks, query]: blocks is the table in the order the blocks were        *)
(* accepted, query the SELECT of onBlockchainReady and its promise.        *)
(***************************************************************************)
\* the ids accepted blocks can have, in the ascending order of the database
IdOrder == << "b1", "b2", "b3" >>

AcceptedIds == Range(IdOrder)

NoQuery == [state |-> "none", rows |-> << >>]

ChainFresh == [lastNBlockIds |-> << >>, blocks |-> << >>, query |-> NoQuery]

\* SELECT id FROM blocks ORDER BY id DESC
RECURSIVE OrderByIdDesc(_)
OrderByIdDesc(ids) ==
    IF ids = {} THEN << >>
    ELSE LET top == CHOOSE b \in ids :
                        \A c \in ids : IndexOf(IdOrder, c) <= IndexOf(IdOrder, b)
         IN  << top >> \o OrderByIdDesc(ids \ {top})

\* ... LIMIT ${blockLimit}
SelectLastBlockIds(blocks, blockLimit) == Slice(OrderByIdDesc(Range(blocks)), blockLimit)

\* Verify.prototype.onBlockchainReady up to the promise it returns
onBlockchainReady(c) == [c EXCEPT !.query = [state |-> "sent", rows |-> << >>]]

\* the database runs the query
QueryRuns(c) ==
    [c EXCEPT !.query = [state |-> "answered",
                         rows |-> SelectLastBlockIds(c.blocks, blockSlotWindow)]]

\* .then(blockIds => ...)
QueryThen(c) ==
    [c EXCEPT !.lastNBlockIds = c.query.rows,
              !.query = [state |-> "settled", rows |-> << >>]]

\* .catch(err => ...): logged
QueryCatch(c) == [c EXCEPT !.query = [state |-> "settled", rows |-> << >>]]

\* Verify.prototype.onNewBlock, called once the block is in the blocks table
onNewBlock(c, id) ==
    LET pushed == Append(c.lastNBlockIds, id)
    IN  [c EXCEPT !.blocks = Append(@, id),
                  !.lastNBlockIds = IF Len(pushed) > blockSlotWindow
                                    THEN Tail(pushed) ELSE pushed]

(***************************************************************************)
(* Verify.prototype.processBlock (modules/blocks/verify.js): async.series  *)
(* over the stages below.  processor = [loaded, stage, block, broadcast,   *)
(* saveBlock, verify, tx, invoked, forks, ledger, failed, cb]: stage is    *)
(* the stage whose callback is awaited, tx the index of the transaction    *)
(* checkTransactions is at, invoked the collaborators called so far,       *)
(* ledger the calls made that write account or block state, failed the     *)
(* stage that found the error and cb what the caller's callback was given. *)
(***************************************************************************)
Stages ==
    << "addBlockProperties", "normalizeBlock", "verifyBlock", "checkExists",
       "validateBlockSlot", "checkTransactions", "applyBlock", "updateSystemHeaders" >>

\* a block that passes verifyBlock on top of a last block of height
\* ProcessedOnHeight, the same block with a wrong signature, and a block of
\* two transactions, and a block without transactions
GoodBlock ==
    [id |-> "b2", previousBlock |-> LastBlockId, timestamp |-> 4, versionValid |-> TRUE,
     signature |-> "valid", getId |-> "b2", reward |-> 5, transactions |-> << "x" >>,
     numberOfTransactions |-> 1, totalAmount |-> 10, totalFee |-> 1,
     payloadHash |-> << "x" >>, payloadLength |-> 1, height |-> 0]

ProcessedBlocks ==
    {GoodBlock,
     [GoodBlock EXCEPT !.signature = "invalid"],
     [GoodBlock EXCEPT !.transactions = << "x", "y" >>, !.numberOfTransactions = 2,
                       !.totalAmount = 20, !.totalFee = 2, !.payloadHash = << "x", "y" >>],
     [GoodBlock EXCEPT !.transactions = << >>, !.payloadHash = << >>]}

ProcessedOnHeight == 2

\* no processBlock call has been made and onBind has not run
ProcessorIdle ==
    [loaded |-> FALSE, stage |-> "none", block |-> GoodBlock, broadcast |-> FALSE,
     saveBlock |-> FALSE, verify |-> FALSE, tx |-> 0, invoked |-> << >>,
     forks |-> << >>, ledger |-> << >>, failed |-> "none", cb |-> "none"]

\* the final callback of async.series: setImmediate(cb, err)
Finish(p, err) == [p EXCEPT !.stage = "done", !.cb = err]

\* a stage calls back with an error
FailStage(p, err) == Finish([p EXCEPT !.failed = p.stage], err)

\* async.series calls the next stage function
StartStage(p, stage) ==
    LET called == \/ stage \notin {"verifyBlock", "checkExists", "checkTransactions"}
                  \/ stage = "verifyBlock" /\ p.verify
                  \/ stage = "checkExists" /\ p.saveBlock
                  \/ stage = "checkTransactions" /\ p.block.transactions # << >>
        q == [p EXCEPT !.stage = stage,
                       !.invoked = IF called THEN Append(@, stage) ELSE @,
                       !.tx = IF stage = "checkTransactions" THEN 1 ELSE 0]
    IN  IF stage = "applyBlock" THEN [q EXCEPT !.ledger = Append(@, "applyBlock")] ELSE q

\* Verify.prototype.processBlock up to async.series
processBlock(p, block, broadcast, saveBlock, verify, isCleaning) ==
    LET q == [p EXCEPT !.block = block, !.broadcast = broadcast,
                       !.saveBlock = saveBlock, !.verify = verify]
    IN  IF isCleaning THEN Finish(q, "Cleaning up")
        ELSE IF ~ p.loaded THEN Finish(q, "Blockchain is loading")
        ELSE StartStage(q, "addBlockProperties")

\* __private.addBlockProperties called back
addBlockProperties(p, threw) ==
    IF ~ p.broadcast /\ threw THEN FailStage(p, "addBlockProperties threw")
    ELSE StartStage(p, "normalizeBlock")

\* __private.normalizeBlock called back
normalizeBlock(p, threw) ==
    IF threw THEN FailStage(p, "objectNormalize threw")
    ELSE StartStage(p, "verifyBlock")

\* __private.verifyBlock called back, or the stage was skipped
privateVerifyBlock(p) ==
    IF ~ p.verify THEN StartStage(p, "checkExists")
    ELSE LET result == verifyBlock(p.block, ProcessedOnHeight)
             q == [p EXCEPT !.forks = @ \o result.forks]
         IN  IF ~ result.verified THEN FailStage(q, result.errors[1].msg)
             ELSE StartStage(q, "checkExists")

\* __private.checkExists called back, or the stage was skipped
checkExists(p, rows) ==
    IF ~ p.saveBlock THEN StartStage(p, "validateBlockSlot")
    ELSE IF rows = "some" THEN FailStage(p, "Block already exists")
    ELSE IF rows = "rejected" THEN FailStage(p, "Block#blockExists error")
    ELSE StartStage(p, "validateBlockSlot")

\* __private.validateBlockSlot called back
validateBlockSlot(p, err) ==
    IF err THEN FailStage([p EXCEPT !.forks = Append(@, 3)], "validateBlockSlot failed")
    ELSE StartStage(p, "checkTransactions")

\* __private.checkTransaction: the waterfall of one transaction has ended
checkTransaction(p, err) ==
    IF err = "Transaction is already confirmed"
    THEN [p EXCEPT !.forks = Append(@, 2),
                   !.failed = "checkTransactions",
                   !.ledger = Append(@, "undoUnconfirmed"),
                   !.stage = "undoUnconfirmed"]
    ELSE IF err # "none" THEN FailStage(p, err)
    ELSE IF p.tx < Len(p.block.transactions) THEN [p EXCEPT !.tx = @ + 1]
    ELSE StartStage(p, "applyBlock")

\* __private.checkTransactions of a block without transactions
checkNoTransactions(p) == StartStage(p, "applyBlock")

\* the callback handed to modules.transactions.undoUnconfirmed (lines 85-88):
\* modules.transactions has no removeUnconfirmedTransaction, the call throws
undoUnconfirmedCallback(p) == [p EXCEPT !.stage = "thrown"]

\* modules.blocks.chain.applyBlock called back
applyBlock(p, err) ==
    IF err THEN FailStage(p, "applyBlock failed")
    ELSE StartStage(p, "updateSystemHeaders")

\* modules.system.update called back
updateSystemHeaders(p, err) ==
    IF err THEN FailStage(p, "system.update failed") ELSE Finish(p, "null")

(***************************************************************************)
(* The state machine                                                       *)
(***************************************************************************)
\* the lists of transactions handed to pushInPool and removeFromPool
Batches == {<< t >> : t \in Tx}

Commit(s) ==
    /\ ~ hung
    /\ Len(s.tasks) <= MaxTasks
    /\ pool' = s.pool
    /\ poolBySender' = s.poolBySender
    /\ poolByRecipient' = s.poolByRecipient
    /\ poolLocked' = s.poolLocked
    /\ queue' = s.queue
    /\ conflictedQueue' = s.conflictedQueue
    /\ queueLocked' = s.queueLocked
    /\ status' = s.status
    /\ tasks' = s.tasks
    /\ hung' = s.hung
    /\ sequencer' = sequencer
    /\ verifier' = verifier
    /\ chain' = chain
    /\ processor' = processor

\* a call from outside the pipeline
Call(s) == calls' = calls + 1 /\ Commit(s)

\* a suspended call resumes
Resume(s) == calls' = calls /\ Commit(s)

Init ==
    /\ pool = {}
    /\ poolBySender = [a \in Addresses |-> << >>]
    /\ poolByRecipient = [a \in Addresses |-> << >>]
    /\ poolLocked = FALSE
    /\ queue = << >>
    /\ conflictedQueue = << >>
    /\ queueLocked = FALSE
    /\ status = [t \in Tx |-> "CREATED"]
    /\ tasks = << >>
    /\ calls = 0
    /\ hung = FALSE
    /\ sequencer = SequenceFresh
    /\ verifier = VerifierIdle
    /\ chain = ChainFresh
    /\ processor = ProcessorIdle

\* Transactions.putInQueue
PutInQueue ==
    /\ calls < MaxCalls
    /\ \E trs \in Tx : Call(QueuePush(Cur, trs))

\* Transactions.reshuffleTransactionQueue
ReshuffleTransactionQueue ==
    /\ calls < MaxCalls
    /\ Call(Reshuffle(Cur))

\* Transactions.triggerTransactionQueue
TriggerTransactionQueue ==
    /\ calls < MaxCalls
    /\ Call(Process(Cur))

\* Transactions.lockTransactionPoolAndQueue
LockTransactionPoolAndQueue ==
    /\ calls < MaxCalls
    /\ Call([Cur EXCEPT !.queueLocked = TRUE, !.poolLocked = TRUE])

\* Transactions.unlockTransactionPoolAndQueue
UnlockTransactionPoolAndQueue ==
    /\ calls < MaxCalls
    /\ Call([Cur EXCEPT !.queueLocked = FALSE, !.poolLocked = FALSE])

\* Transactions.pushInPool
PushInPool ==
    /\ calls < MaxCalls
    /\ \E transactions \in Batches : Call(PushInPoolLoop(Cur, transactions))

\* Transactions.removeFromPool
RemoveFromPool ==
    /\ calls < MaxCalls
    /\ \E transactions \in Batches, withDepend \in BOOLEAN :
           Call(removeFromPool(Cur, transactions, withDepend))

\* Transactions.getUnconfirmedTransactionsForBlockGeneration
PopSortedUnconfirmedTransactions ==
    /\ calls < MaxCalls
    /\ \E limit \in 1..Cardinality(Tx) :
           Call(popSortedUnconfirmedTransactions(Cur, limit))

\* TransactionPool.push called and awaited by any caller
PoolPushCall ==
    /\ calls < MaxCalls
    /\ \E trs \in Tx, broadcast \in BOOLEAN, force \in BOOLEAN :
           LET r == PoolPush(Cur, trs, broadcast, force)
           IN  Call(IF r.await
                    THEN Spawn(r.s, [Task("push", "newApplyUnconfirmed", trs)
                                        EXCEPT !.broadcast = broadcast])
                    ELSE r.s)

\* TransactionPool.pop
PoolPop ==
    /\ calls < MaxCalls
    /\ \E trs \in Tx : Call(Pop(Cur, trs))

\* process: getOrCreateAccount resolved
GetOrCreateAccountDone ==
    \E i \in DOMAIN tasks :
        /\ tasks[i].kind = "process" /\ tasks[i].pc = "getOrCreateAccount"
        /\ Resume([Cur EXCEPT !.tasks[i].pc = "newVerify"])

\* verify: newVerify settled
NewVerifyDone ==
    \E i \in DOMAIN tasks, ok \in BOOLEAN :
        /\ tasks[i].kind = "process" /\ tasks[i].pc = "newVerify"
        /\ Resume(IF ok
                  THEN [Cur EXCEPT !.tasks[i].pc = "newVerifyUnconfirmed"]
                  ELSE VerifyFailed(WithoutTask(Cur, i), tasks[i].trs))

\* verify: newVerifyUnconfirmed settled
NewVerifyUnconfirmedDone ==
    \E i \in DOMAIN tasks, ok \in BOOLEAN :
        /\ tasks[i].kind = "process" /\ tasks[i].pc = "newVerifyUnconfirmed"
        /\ Resume(IF ok
                  THEN Verified(WithoutTask(Cur, i), tasks[i].trs)
                  ELSE VerifyFailed(WithoutTask(Cur, i), tasks[i].trs))

\* pool.push: newApplyUnconfirmed settled
NewApplyUnconfirmedDone ==
    \E i \in DOMAIN tasks, ok \in BOOLEAN :
        /\ tasks[i].pc = "newApplyUnconfirmed"
        /\ Resume(IF tasks[i].kind = "process"
                  THEN ProcessPushSettled(WithoutTask(Cur, i), tasks[i].trs, ok,
                                          tasks[i].gone)
                  ELSE PushInPoolLoop(PushSettled(WithoutTask(Cur, i), tasks[i].trs,
                                                  tasks[i].broadcast, ok, tasks[i].gone),
                                      tasks[i].rest))

\* pool.remove: newUndoUnconfirmed settled
NewUndoUnconfirmedDone ==
    \E i \in DOMAIN tasks, ok \in BOOLEAN :
        /\ tasks[i].pc = "newUndoUnconfirmed"
        /\ Resume(RemoveLoopSettled(WithoutTask(Cur, i), tasks[i], ok))

Next ==
    \/ PutInQueue
    \/ ReshuffleTransactionQueue
    \/ TriggerTransactionQueue
    \/ LockTransactionPoolAndQueue
    \/ UnlockTransactionPoolAndQueue
    \/ PushInPool
    \/ RemoveFromPool
    \/ PopSortedUnconfirmedTransactions
    \/ PoolPop
    \/ GetOrCreateAccountDone
    \/ NewVerifyDone
    \/ NewVerifyUnconfirmedDone
    \/ NewApplyUnconfirmedDone
    \/ NewUndoUnconfirmedDone

Spec == Init /\ [][Next]_vars

\* the pool alone, driven through its own interface
NextPool ==
    \/ PoolPushCall
    \/ PushInPool
    \/ RemoveFromPool
    \/ PopSortedUnconfirmedTransactions
    \/ PoolPop
    \/ LockTransactionPoolAndQueue
    \/ UnlockTransactionPoolAndQueue
    \/ NewApplyUnconfirmedDone
    \/ NewUndoUnconfirmedDone

SpecPool == Init /\ [][NextPool]_vars

(***************************************************************************)
(* Properties.  A property of what a call does is stated on the value the  *)
(* operator modelling the call yields in the current state: the state in   *)
(* which the call returns, and in s.ev what it did on the way.             *)
(***************************************************************************)
Last(seq) == seq[Len(seq)]

SuspendedPushes == {i \in DOMAIN tasks : tasks[i].pc = "newApplyUnconfirmed"}

\* the state in which the push suspended as tasks[i] returns
PushReturn(i, ok) ==
    PushSettled(WithoutTask(Cur, i), tasks[i].trs, tasks[i].broadcast, ok, tasks[i].gone)

\* the return events of every push that can return now: the pushes any
\* caller can make that return without suspending, and the suspended pushes
\* with either outcome of newApplyUnconfirmed.  had: trs was in byId when
\* push was called.
PushReturnEvents ==
    {[Last(PoolPush(Cur, c[1], c[2], c[3]).s.ev) EXCEPT !.had = c[1] \in pool] :
        c \in {d \in Tx \X BOOLEAN \X BOOLEAN : ~ PoolPush(Cur, d[1], d[2], d[3]).await}}
    \cup {Last(PushReturn(c[1], c[2]).ev) : c \in SuspendedPushes \X BOOLEAN}

EventsNamed(events, name) == {k \in DOMAIN events : events[k].e = name}

\* C1 (INV-1): a transaction is in byId iff it is in bySender[its senderId],
\* and a pool transaction is in byRecipient[its recipientId] iff it is a SEND.
IndexesConsistent ==
    \A t \in Tx :
        /\ t \in pool <=> t \in Range(poolBySender[SenderId(t)])
        /\ t \in pool =>
               (t \in Range(poolByRecipient[RecipientId(t)]) <=> TypeOf(t) = "SEND")

\* C2: when newApplyUnconfirmed fails inside push(trs), push returns false
\* with trs in none of byId, bySender and byRecipient, status DECLINED and
\* nothing emitted on the bus.
RollbackComplete ==
    \A i \in SuspendedPushes :
        LET s1 == PushReturn(i, FALSE)
            trs == tasks[i].trs
        IN  /\ trs \notin s1.pool
            /\ trs \notin Range(s1.poolBySender[SenderId(trs)])
            /\ trs \notin Range(s1.poolByRecipient[RecipientId(trs)])
            /\ s1.status[trs] = "DECLINED"
            /\ EventsNamed(s1.ev, "transactionPutInPool") = {}
            /\ Last(s1.ev).e = "push" /\ ~ Last(s1.ev).res

\* C3 (P2, Q1): no transaction is at the same time in queue or
\* conflictedQueue and in the pool's byId.
QueuePoolDisjoint ==
    pool \cap (Range(queue) \cup Range(conflictedQueue)) = {}

\* C4: at most one process() cycle is in flight.
ProcessCycles == {i \in DOMAIN tasks : tasks[i].kind = "process"}

SingleProcessCycle == Cardinality(ProcessCycles) <= 1

\* C5: while the queue is not locked a process() call keeps going until the
\* queue is empty: when it comes back to its caller, either the queue is
\* empty or the cycle is suspended at an await and will go on.
ProcessDrainsQueue ==
    ~ queueLocked =>
        LET s1 == Process(Cur)
        IN  s1.queue = << >> \/ Len(s1.tasks) > Len(tasks)

\* C6: between the start of a pool push or remove and its completion no other
\* push or remove on the pool is under way.
PoolOperations ==
    {i \in DOMAIN tasks : tasks[i].pc \in {"newApplyUnconfirmed", "newUndoUnconfirmed"}}

PoolOperationsSerialized == Cardinality(PoolOperations) <= 1

\* C7 (INV-3, P3): every transaction in byId has status UNCONFIRM_APPLIED.
PoolStatusApplied == \A t \in pool : status[t] = "UNCONFIRM_APPLIED"

RefusedPushChangesNothing ==
    \A trs \in Tx, broadcast \in BOOLEAN, force \in BOOLEAN :
        LET r == PoolPush(Cur, trs, broadcast, force)
            unlocked == PoolPush([Cur EXCEPT !.poolLocked = FALSE], trs, broadcast, TRUE)
        IN  /\ (poolLocked /\ ~ force) \/ trs \in pool =>
                /\ ~ r.await
                /\ Last(r.s.ev).e = "push" /\ ~ Last(r.s.ev).res
                /\ [r.s EXCEPT !.ev = << >>] = Cur
                /\ EventsNamed(r.s.ev, "newApplyUnconfirmed") = {}
                /\ EventsNamed(r.s.ev, "transactionPutInPool") = {}
            /\ force =>
                /\ r.await = unlocked.await
                /\ [r.s EXCEPT !.poolLocked = FALSE] = unlocked.s

\* C9 witness: the pool is locked, it holds a transaction (a push of it is
\* refused) and a forced push of another transaction would go through.
LockedPoolTakesForcedPush ==
    /\ poolLocked
    /\ pool # {}
    /\ \E trs \in Tx : trs \notin pool /\ PoolPush(Cur, trs, FALSE, TRUE).await

\* C10: the reference rule of the conflict detector
ReferenceConflict(trs) ==
    LET dependent == Range(poolByRecipient[SenderId(trs)])
                     \cup Range(poolBySender[SenderId(trs)])
        all == dependent \cup {trs}
        last == CHOOSE m \in all : \A x \in all : transactionSortFunc(x, m) <= 0
    IN  IF dependent = {} THEN FALSE
        ELSE IF TypeOf(trs) = "SIGNATURE" THEN TRUE
        ELSE IF TypeOf(trs) = "VOTE" /\ \E d \in dependent : TypeOf(d) = "VOTE" THEN TRUE
        ELSE IF TypeOf(trs) = "REFERRAL" /\ \E d \in dependent : TypeOf(d) = "REFERRAL"
        THEN TRUE
        ELSE trs # last

\* C10: isPotentialConflict(trs) equals the reference rule for every pool
\* content and every candidate push and process() hand it (one that is not
\* in byId).
ConflictMatchesReference ==
    \A trs \in Tx \ pool : isPotentialConflict(Cur, trs) = ReferenceConflict(trs)

\* C11: every bySender bucket is in ascending transactionSortFunc order, and
\* a push that inserts trs (forced or not) finds every transaction of
\* bySender[sender of trs] and byRecipient[sender of trs] sorting before trs.
Ascending(seq) ==
    \A i, j \in 1..Len(seq) : i < j => transactionSortFunc(seq[i], seq[j]) < 0

BySenderSorted ==
    /\ \A a \in Addresses : Ascending(poolBySender[a])
    /\ \A trs \in Tx, force \in BOOLEAN :
           PoolPush(Cur, trs, TRUE, force).await =>
               \A x \in Range(poolBySender[SenderId(trs)])
                         \cup Range(poolByRecipient[SenderId(trs)]) :
                   transactionSortFunc(x, trs) < 0

\* C11 witness: a sender has two transactions in the pool and a push of a
\* pending recipient's transaction would be admitted behind them.
TwoPendingFromSender ==
    \E a \in Addresses :
        /\ Len(poolBySender[a]) >= 2
        /\ Range(poolBySender[a]) \subseteq pool
        /\ \E trs \in Tx \ pool :
               /\ poolByRecipient[SenderId(trs)] # << >>
               /\ PoolPush(Cur, trs, TRUE, TRUE).await

\* the calls of popSortedUnconfirmedTransactions in flight
PopSortedCalls == {i \in DOMAIN tasks : tasks[i].kind = "popSorted"}

\* the state in which the call suspended as tasks[i] is resumed has run up to
\* its next await or its return; it returned iff s.ev has a popSorted event
PopSortedResumed(i, ok) == RemoveLoopSettled(WithoutTask(Cur, i), tasks[i], ok)

\* list is the first min(limit, size) transactions of byId in sorted order
FirstSorted(list, limit) ==
    /\ Len(list) = IF limit < Cardinality(pool) THEN limit ELSE Cardinality(pool)
    /\ Range(list) \subseteq pool
    /\ Ascending(list)
    /\ \A t \in pool \ Range(list) : \A x \in Range(list) : transactionSortFunc(x, t) < 0

\* C12: popSortedUnconfirmedTransactions(limit) returns the first
\* min(limit, pool size) transactions of the sorted pool, and when it returns
\* every returned transaction is in none of the three indexes, the pool is
\* smaller by the number returned and the other transactions it found are
\* still in byId and in their buckets.
PopSortedPostcondition ==
    /\ \A limit \in 1..Cardinality(Tx) :
           LET s1 == popSortedUnconfirmedTransactions(Cur, limit)
           IN  IF Len(s1.tasks) > Len(tasks)
               THEN FirstSorted(Last(s1.tasks).acc, limit)
               ELSE FirstSorted(Last(s1.ev).list, limit)
    /\ \A i \in PopSortedCalls, ok \in BOOLEAN :
           LET s1 == PopSortedResumed(i, ok)
               list == tasks[i].acc
           IN  EventsNamed(s1.ev, "popSorted") # {} =>
                   /\ Last(s1.ev).list = list
                   /\ \A t \in Range(list) :
                          /\ t \notin s1.pool
                          /\ t \notin Range(s1.poolBySender[SenderId(t)])
                          /\ t \notin Range(s1.poolByRecipient[RecipientId(t)])
                   /\ getSize(s1) = Cardinality(tasks[i].snap) - Len(list)
                   /\ \A t \in tasks[i].snap \ Range(list) :
                          /\ t \in s1.pool
                          /\ t \in Range(s1.poolBySender[SenderId(t)])
                          /\ TypeOf(t) = "SEND" =>
                                 t \in Range(s1.poolByRecipient[RecipientId(t)])

\* C13: while a call of popSortedUnconfirmedTransactions is in flight no
\* step other than its own changes the pool, and when it returns no returned
\* transaction is in the queue or back in the pool.
SnapshotUntouched ==
    \A i \in PopSortedCalls :
        (\E j \in DOMAIN tasks' : tasks'[j] = tasks[i]) =>
            /\ pool' = pool
            /\ poolBySender' = poolBySender
            /\ poolByRecipient' = poolByRecipient

BatchLeftPipeline ==
    \A i \in PopSortedCalls, ok \in BOOLEAN :
        LET s1 == PopSortedResumed(i, ok)
        IN  EventsNamed(s1.ev, "popSorted") # {} =>
                \A t \in Range(tasks[i].acc) :
                    t \notin s1.pool /\ t \notin Range(s1.queue)

NoTornSnapshot == [][SnapshotUntouched]_vars /\ [] BatchLeftPipeline

\* C14: for trs outside the pool and not in conflict, push(trs) that succeeds
\* followed by remove(trs) gives back byId, getSize and the sequences of
\* getTransactionsBySenderId and getTransactionsByRecipientId of every
\* account, with one call of newApplyUnconfirmed(trs) and one call of
\* newUndoUnconfirmed(trs).
PushThenRemove(trs, broadcast, force, ok) ==
    LET pushed == PushSettled(PoolPush(Cur, trs, broadcast, force).s, trs,
                              broadcast, TRUE, FALSE)
    IN  RemoveSettled(PoolRemove(pushed, trs).s, trs, ok)

PushRemoveRestores ==
    \A trs \in Tx \ pool, broadcast \in BOOLEAN, force \in BOOLEAN, ok \in BOOLEAN :
        PoolPush(Cur, trs, broadcast, force).await =>
            LET s2 == PushThenRemove(trs, broadcast, force, ok)
            IN  /\ s2.pool = pool
                /\ getSize(s2) = getSize(Cur)
                /\ \A a \in Addresses :
                       /\ getTransactionsBySenderId(s2, a)
                              = getTransactionsBySenderId(Cur, a)
                       /\ getTransactionsByRecipientId(s2, a)
                              = getTransactionsByRecipientId(Cur, a)
                /\ Cardinality({k \in EventsNamed(s2.ev, "newApplyUnconfirmed") :
                                    s2.ev[k].trs = trs}) = 1
                /\ Cardinality({k \in EventsNamed(s2.ev, "newUndoUnconfirmed") :
                                    s2.ev[k].trs = trs}) = 1

\* C14 witness: a transaction has been pushed, applied and removed again
\* while a transaction sent to its sender stays in the pool, and it can be
\* pushed anew.
PushedAndRemoved ==
    \E trs \in Tx \ pool :
        /\ status[trs] = "UNCONFIRM_APPLIED"
        /\ pool # {}
        /\ poolByRecipient[SenderId(trs)] # << >>
        /\ PoolPush(Cur, trs, FALSE, FALSE).await

\* the removes suspended in newUndoUnconfirmed
SuspendedRemoves == {i \in DOMAIN tasks : tasks[i].pc = "newUndoUnconfirmed"}

\* C15: remove(trs) of a transaction outside byId returns false at once,
\* calls no collaborator and changes nothing; remove(trs) of a transaction in
\* byId calls newUndoUnconfirmed and, whether that resolves or rejects,
\* returns true with trs in none of byId, bySender and byRecipient.
RemoveContract ==
    /\ \A trs \in Tx :
           LET r == PoolRemove(Cur, trs)
           IN  IF trs \in pool
               THEN /\ r.await
                    /\ Last(r.s.ev).e = "newUndoUnconfirmed"
                    /\ Last(r.s.ev).trs = trs
                    /\ [r.s EXCEPT !.ev = << >>] = Cur
               ELSE /\ ~ r.await
                    /\ Last(r.s.ev).e = "remove" /\ ~ Last(r.s.ev).res
                    /\ EventsNamed(r.s.ev, "newUndoUnconfirmed") = {}
                    /\ [r.s EXCEPT !.ev = << >>] = Cur
    /\ \A i \in SuspendedRemoves, ok \in BOOLEAN :
           LET trs == tasks[i].trs
               s1 == RemoveSettled(WithoutTask(Cur, i), trs, ok)
           IN  /\ Last(s1.ev).e = "remove" /\ Last(s1.ev).res
               /\ trs \notin s1.pool
               /\ trs \notin Range(s1.poolBySender[SenderId(trs)])
               /\ trs \notin Range(s1.poolByRecipient[RecipientId(trs)])
               /\ \A t \in Tx \ {trs} :
                      /\ t \in s1.pool <=> t \in pool
                      /\ t \in Range(s1.poolBySender[SenderId(t)])
                             <=> t \in Range(poolBySender[SenderId(t)])

\* C15 witness: a remove is suspended in newUndoUnconfirmed, its transaction
\* shares a bucket with another one, and some transaction is outside the pool.
RemoveUnderWay ==
    /\ pool # Tx
    /\ \E i \in SuspendedRemoves :
           /\ tasks[i].trs \in pool
           /\ Len(poolBySender[SenderId(tasks[i].trs)]) >= 2

\* the transactions waiting for admission and those a process() cycle holds
Waiting == Range(queue) \cup Range(conflictedQueue)

HeldByCycle == {tasks[i].trs : i \in ProcessCycles}

\* C16: while pool and queue are locked a transaction enters byId only
\* through a forced push, and a transaction that waits in queue or
\* conflictedQueue or is held by a process() cycle stays there or, when the
\* cycle lets go of it, is in queue or conflictedQueue, unless verification
\* declined it.
LockKeepsWork ==
    poolLocked /\ queueLocked /\ poolLocked' /\ queueLocked' =>
        /\ \A t \in pool' \ pool :
               \E j \in DOMAIN tasks' :
                   tasks'[j].kind = "pushInPool" /\ tasks'[j].trs = t
        /\ \A t \in Waiting \cup HeldByCycle :
               \/ t \in Waiting'
               \/ t \in HeldByCycle'
               \/ status'[t] = "DECLINED"

LockKeepsWorkOrAdmits ==
    poolLocked /\ queueLocked /\ poolLocked' /\ queueLocked' =>
        /\ \A t \in pool' \ pool :
               \E j \in DOMAIN tasks' :
                   tasks'[j].kind = "pushInPool" /\ tasks'[j].trs = t
        /\ \A t \in Waiting \cup HeldByCycle :
               \/ t \in Waiting'
               \/ t \in HeldByCycle'
               \/ status'[t] = "DECLINED"
               \/ /\ status'[t] = "UNCONFIRM_APPLIED"
                  /\ \E i \in ProcessCycles :
                         tasks[i].trs = t /\ tasks[i].pc = "newApplyUnconfirmed"

MaxQueuedLocked == 2

QueuedWhileLocked ==
    UNION {[1..n -> Tx] : n \in 1..MaxQueuedLocked}

Fresh ==
    [pool |-> {}, poolBySender |-> [a \in Addresses |-> << >>],
     poolByRecipient |-> [a \in Addresses |-> << >>], poolLocked |-> FALSE,
     queue |-> << >>, conflictedQueue |-> << >>, queueLocked |-> FALSE,
     status |-> [t \in Tx |-> "CREATED"], tasks |-> << >>, ev |-> << >>,
     hung |-> FALSE]

RECURSIVE PutAllInQueue(_, _)
PutAllInQueue(s, list) ==
    IF list = << >> THEN s
    ELSE PutAllInQueue(QueuePush(s, Head(list)), Tail(list))

\* pushInPool([trs]) with newApplyUnconfirmed resolving
ForcedPushApplied(s, trs) ==
    LET r == PoolPush(s, trs, FALSE, TRUE)
    IN  IF r.await THEN PushSettled(r.s, trs, FALSE, TRUE, FALSE) ELSE r.s

\* lock; putInQueue of each of list; pushInPool(forced); unlock; trigger
UnlockedAndTriggered(list, forced) ==
    LET s1 == [Fresh EXCEPT !.queueLocked = TRUE, !.poolLocked = TRUE]
        s2 == PutAllInQueue(s1, list)
        s3 == IF forced = << >> THEN s2 ELSE ForcedPushApplied(s2, forced[1])
        s4 == [s3 EXCEPT !.queueLocked = FALSE, !.poolLocked = FALSE]
    IN  [Process(s4) EXCEPT !.ev = << >>]

InitResume ==
    \E list \in QueuedWhileLocked, forced \in {<< >>} \cup Batches :
        LET s == UnlockedAndTriggered(list, forced)
        IN  /\ pool = s.pool
            /\ poolBySender = s.poolBySender
            /\ poolByRecipient = s.poolByRecipient
            /\ poolLocked = s.poolLocked
            /\ queue = s.queue
            /\ conflictedQueue = s.conflictedQueue
            /\ queueLocked = s.queueLocked
            /\ status = s.status
            /\ tasks = s.tasks
            /\ hung = s.hung
            /\ calls = Len(list) + Len(forced) + 3
            /\ sequencer = SequenceFresh
            /\ verifier = VerifierIdle
            /\ chain = ChainFresh
            /\ processor = ProcessorIdle

NextResume ==
    \/ GetOrCreateAccountDone
    \/ NewVerifyDone
    \/ NewVerifyUnconfirmedDone
    \/ NewApplyUnconfirmedDone

SpecResume == InitResume /\ [][NextResume]_vars /\ WF_vars(NextResume)

\* C17: after unlock and trigger every transaction waiting in the queue is
\* eventually dequeued.
AdmissionResumes ==
    \A t \in Tx : (t \in Range(queue)) ~> (t \notin Range(queue))

(***************************************************************************)
(* The Sequence on its own                                                  *)
(***************************************************************************)
poolVars == << pool, poolBySender, poolByRecipient, poolLocked, queue,
               conflictedQueue, queueLocked, status, tasks, calls, hung >>

\* Sequence.prototype.add called by the rest of the node
Add ==
    /\ \E t \in TaskIds : sequencer.task[t].state = "none"
    /\ \E isFunction \in BOOLEAN, hasDone \in BOOLEAN :
           sequencer' = SequenceAdd(sequencer, isFunction, hasDone)
    /\ UNCHANGED poolVars
    /\ UNCHANGED << verifier, chain, processor >>

\* a setImmediate callback runs
RunImmediate ==
    /\ sequencer.immediates # << >>
    /\ \E throws \in BOOLEAN : sequencer' = RunHead(sequencer, throws)
    /\ UNCHANGED poolVars
    /\ UNCHANGED << verifier, chain, processor >>

\* setTimeout(nextSequenceTick, 600) fires
NextSequenceTick ==
    /\ sequencer.timers > 0
    /\ \E throws \in BOOLEAN : sequencer' = Tick([sequencer EXCEPT !.timers = @ - 1], throws)
    /\ UNCHANGED poolVars
    /\ UNCHANGED << verifier, chain, processor >>

\* a running worker calls the callback
WorkerSignals ==
    /\ \E t \in TaskIds, err \in BOOLEAN :
           /\ sequencer.task[t].state = "running"
           /\ sequencer' = Callback(sequencer, t, err)
    /\ UNCHANGED poolVars
    /\ UNCHANGED << verifier, chain, processor >>

\* a worker calls the callback once more
WorkerSignalsAgain ==
    /\ \E t \in TaskIds, err \in BOOLEAN :
           /\ sequencer.task[t].state = "finished"
           /\ sequencer.task[t].callbacks < MaxCallbacks
           /\ sequencer' = Callback(sequencer, t, err)
    /\ UNCHANGED poolVars
    /\ UNCHANGED << verifier, chain, processor >>

NextSequence ==
    \/ Add
    \/ RunImmediate
    \/ NextSequenceTick
    \/ WorkerSignals
    \/ WorkerSignalsAgain

SpecSequence == Init /\ [][NextSequence]_vars

\* every scheduled callback and timer runs, and a running worker that does
\* not fail calls its callback
SpecSequenceFair ==
    /\ SpecSequence
    /\ WF_vars(RunImmediate)
    /\ WF_vars(NextSequenceTick)
    /\ WF_vars(WorkerSignals)

Invoked(t) == sequencer.task[t].state \in {"running", "finished", "failed"}

\* C18: at most one worker is running, and a worker is invoked only when
\* the worker of every task added before it has been invoked and has called
\* the callback.
OneWorkerInOrder ==
    /\ Cardinality({t \in TaskIds : sequencer.task[t].state = "running"}) <= 1
    /\ \A t, u \in TaskIds :
           t < u /\ Invoked(u) => sequencer.task[t].state = "finished"

\* C19: count() is the number of tasks added and not started; the error of
\* a failing worker reaches the done of its task, once; and every task that
\* waits in the sequence is eventually started.
SequenceSurvivesFailure ==
    /\ [] (count(sequencer) = Cardinality({t \in TaskIds : sequencer.task[t].state = "waiting"}))
    /\ [] (\A t \in TaskIds : sequencer.task[t].delivered <= 1)
    /\ \A t \in TaskIds :
           (sequencer.task[t].err /\ sequencer.task[t].hasDone) ~> (sequencer.task[t].delivered = 1)
    /\ \A t \in TaskIds :
           (sequencer.task[t].state = "waiting") ~> Invoked(t)

(***************************************************************************)
(* Block verification on its own: a block arrives and is verified           *)
(***************************************************************************)
VerifyReceipt ==
    /\ verifier.call = "none"
    /\ \E block \in Blocks, lastHeight \in LastHeights :
           verifier' = [call |-> "verifyReceipt", given |-> block,
                        lastHeight |-> lastHeight,
                        result |-> verifyReceipt(block, lastHeight)]
    /\ UNCHANGED poolVars
    /\ UNCHANGED << sequencer, chain, processor >>

VerifyBlock ==
    /\ verifier.call = "none"
    /\ \E block \in Blocks, lastHeight \in LastHeights :
           verifier' = [call |-> "verifyBlock", given |-> block,
                        lastHeight |-> lastHeight,
                        result |-> verifyBlock(block, lastHeight)]
    /\ UNCHANGED poolVars
    /\ UNCHANGED << sequencer, chain, processor >>

NextVerify == VerifyReceipt \/ VerifyBlock

SpecVerify == Init /\ [][NextVerify]_vars

ReceiptChecks ==
    << "verifySignature", "verifyPreviousBlock", "verifyAgainstLastNBlockIds",
       "verifyBlockSlotWindow", "verifyVersion", "verifyId", "verifyPayload" >>

BlockChecks ==
    << "verifySignature", "verifyPreviousBlock", "verifyVersion", "verifyId",
       "verifyPayload", "verifyForkOne", "verifyBlockSlot" >>

\* C20: the result of verifyBlock and of verifyReceipt is verified iff its
\* errors list is empty, and every check of the function has run, in order,
\* whatever the earlier checks recorded.
ErrorsCollected ==
    verifier.call # "none" =>
        /\ verifier.result.verified <=> verifier.result.errors = << >>
        /\ verifier.call = "verifyReceipt" => verifier.result.ran = ReceiptChecks
        /\ verifier.call = "verifyBlock" => verifier.result.ran = BlockChecks

\* C20 witness: a verification recorded an error in its first check and
\* another one in its last check.
ErrorsOfFirstAndLastCheck ==
    /\ verifier.call = "verifyReceipt"
    /\ \E i, j \in 1..Len(verifier.result.errors) :
           /\ verifier.result.errors[i].msg = "Failed to verify block signature"
           /\ verifier.result.errors[j].msg = "Invalid total fee"

\* the reward verifyReward expects of the block as the verification left it
ExpectedReward(block) ==
    IF block.height > 21000000 THEN 0 ELSE calcReward(block.height)

\* the reward verifyReward compares: coerced to 0 above height 21,000,000
CoercedReward(block) ==
    IF block.height > 21000000 THEN 0 ELSE block.reward

\* C21: a block whose reward differs from the expected reward is not reported
\* verified by verifyBlock or verifyReceipt, unless its id is in
\* exceptions.blockRewards or its height is 1; the reward check is one of the
\* checks both functions run.
RewardChecked ==
    verifier.call # "none" =>
        LET block == verifier.result.block
        IN  /\ ( /\ block.height # 1
                 /\ ExpectedReward(block) # CoercedReward([verifier.given EXCEPT
                                                !.height = block.height])
                 /\ verifier.given.id \notin blockRewards
                 /\ block.id \notin blockRewards )
               => ~ verifier.result.verified
            /\ \E i \in DOMAIN verifier.result.ran :
                   verifier.result.ran[i] = "verifyReward"

\* C22: a block whose carried id differs from the id recomputed by the block
\* crypto is never reported verified by verifyBlock or verifyReceipt.
IdMismatchRejected ==
    ( /\ verifier.call # "none"
      /\ verifier.given.getId # "throws"
      /\ verifier.given.id # verifier.given.getId )
    => ~ verifier.result.verified

\* C23: whenever the id of the block, as it stands when verifyReceipt returns,
\* is in lastNBlockIds, the result carries 'Block already exists in chain'
\* and is not verified.
KnownBlockRejected ==
    ( /\ verifier.call = "verifyReceipt"
      /\ IndexOf(lastNBlockIds, verifier.result.block.id) # 0 )
    => /\ ~ verifier.result.verified
       /\ \E i \in DOMAIN verifier.result.errors :
              verifier.result.errors[i].msg = "Block already exists in chain"

(***************************************************************************)
(* The ids of the last accepted blocks on their own                        *)
(***************************************************************************)
\* the bus delivers blockchainReady
OnBlockchainReady ==
    /\ chain.query.state = "none"
    /\ chain' = onBlockchainReady(chain)
    /\ UNCHANGED poolVars
    /\ UNCHANGED << sequencer, verifier, processor >>

\* the database runs the SELECT
DbQueryRuns ==
    /\ chain.query.state = "sent"
    /\ chain' = QueryRuns(chain)
    /\ UNCHANGED poolVars
    /\ UNCHANGED << sequencer, verifier, processor >>

\* the promise of the query is fulfilled
DbQueryFulfilled ==
    /\ chain.query.state = "answered"
    /\ chain' = QueryThen(chain)
    /\ UNCHANGED poolVars
    /\ UNCHANGED << sequencer, verifier, processor >>

\* the promise of the query is rejected
DbQueryRejected ==
    /\ chain.query.state \in {"sent", "answered"}
    /\ chain' = QueryCatch(chain)
    /\ UNCHANGED poolVars
    /\ UNCHANGED << sequencer, verifier, processor >>

\* the bus delivers newBlock for a block that has just been accepted
OnNewBlock ==
    /\ \E id \in AcceptedIds \ Range(chain.blocks) : chain' = onNewBlock(chain, id)
    /\ UNCHANGED poolVars
    /\ UNCHANGED << sequencer, verifier, processor >>

NextChain ==
    \/ OnBlockchainReady
    \/ DbQueryRuns
    \/ DbQueryFulfilled
    \/ DbQueryRejected
    \/ OnNewBlock

SpecChain == Init /\ [][NextChain]_vars

\* the ids of the last blockSlotWindow accepted blocks, oldest first
LatestIds(blocks) ==
    SubSeq(blocks,
           IF Len(blocks) > blockSlotWindow THEN Len(blocks) - blockSlotWindow + 1 ELSE 1,
           Len(blocks))

\* C24: once the query of onBlockchainReady has settled (or was never made),
\* lastNBlockIds has at most blockSlotWindow entries and holds exactly the
\* ids of the most recently accepted blocks, oldest first.
LastNHoldsLatest ==
    chain.query.state \in {"none", "settled"} =>
        /\ Len(chain.lastNBlockIds) <= blockSlotWindow
        /\ chain.lastNBlockIds = LatestIds(chain.blocks)

\* the result of the verification carries an error with this message
Recorded(msg) ==
    \E i \in DOMAIN verifier.result.errors : verifier.result.errors[i].msg = msg

\* the sum of a field over the transactions of a block
RECURSIVE SumOf(_, _)
SumOf(transactions, field) ==
    IF transactions = << >> THEN 0
    ELSE BlockTransactions[Head(transactions)][field] + SumOf(Tail(transactions), field)

\* the digest of the bytes of the transactions whose bytes can be computed
DigestOf(transactions) ==
    SelectSeq(transactions, LAMBDA t : BlockTransactions[t].bytes)

DuplicateErrors(id) ==
    Cardinality({i \in DOMAIN verifier.result.errors :
                    verifier.result.errors[i] = Error("Encountered duplicate transaction", id)})

\* the number of occurrences of id among the transactions of the block
Occurrences(transactions, id) ==
    Cardinality({i \in DOMAIN transactions : BlockTransactions[transactions[i]].id = id})

\* C26: verifyPayload records one 'Encountered duplicate transaction: <id>'
\* error for every repeated occurrence of a transaction id in the block, at
\* any height, and a block with a repeated id is not verified.
DuplicateTransactionRejected ==
    verifier.call # "none" =>
        \A t \in DOMAIN BlockTransactions :
            LET n == Occurrences(verifier.given.transactions, BlockTransactions[t].id)
            IN  /\ DuplicateErrors(BlockTransactions[t].id) = (IF n > 1 THEN n - 1 ELSE 0)
                /\ n > 1 => ~ verifier.result.verified

\* C26 witness: a block with the same transaction three times was handed in at a
\* height not above MASTER_NODE_MIGRATED_BLOCK and both repetitions are recorded.
DuplicateBeforeMigration ==
    /\ verifier.call # "none"
    /\ verifier.given.transactions = << "x", "x", "x" >>
    /\ verifier.lastHeight + 1 <= MASTER_NODE_MIGRATED_BLOCK
    /\ DuplicateErrors("x") = 2

\* verifyForkOne has recorded its error about the previous block of the block
ForkOneRecorded ==
    \E i \in DOMAIN verifier.result.errors :
        /\ verifier.result.errors[i].msg = "Invalid previous block"
        /\ verifier.result.errors[i].about = verifier.given.previousBlock
        /\ verifier.result.errors[i].about # ""

\* C27 as stated: verifyBlock signals a type-1 fork and records the error
\* whenever block.previousBlock differs from lastBlock.id, a missing
\* previousBlock included, and does neither when they are equal.
ForkOneOnAnyDifference ==
    verifier.call = "verifyBlock" =>
        LET differs == verifier.given.previousBlock # LastBlockId
        IN  /\ verifier.result.forks = (IF differs THEN << 1 >> ELSE << >>)
            /\ ForkOneRecorded <=> differs

\* C27 amended: verifyBlock signals a type-1 fork and records the error
\* whenever block.previousBlock is present and differs from lastBlock.id, and
\* the block is then not verified; it does neither when they are equal or
\* when previousBlock is missing, which verifyPreviousBlock reports, without
\* a fork, unless the height is 1.
ForkOneOnPresentDifference ==
    verifier.call = "verifyBlock" =>
        LET previousBlock == verifier.given.previousBlock
            differs == previousBlock # NoBlock /\ previousBlock # LastBlockId
        IN  /\ verifier.result.forks = (IF differs THEN << 1 >> ELSE << >>)
            /\ ForkOneRecorded <=> differs
            /\ differs => ~ verifier.result.verified
            /\ (previousBlock = NoBlock /\ verifier.lastHeight + 1 # 1)
                   => (Recorded("Invalid previous block") /\ ~ verifier.result.verified)

\* C27 witness: verifyBlock was handed a block without previousBlock at a
\* height other than 1: no fork was signalled and the block is refused.
MissingPreviousBlockNoFork ==
    /\ verifier.call = "verifyBlock"
    /\ verifier.given.previousBlock = NoBlock
    /\ verifier.lastHeight + 1 # 1
    /\ verifier.result.forks = << >>
    /\ Recorded("Invalid previous block")

\* currentSlot - blockSlot for the block handed in
SlotsBehind == getSlotNumber(Now) - getSlotNumber(verifier.given.timestamp)

\* C28: verifyReceipt records 'Block slot is too old' exactly when
\* currentSlot - blockSlot exceeds blockSlotWindow and 'Block slot is in the
\* future' exactly when blockSlot is greater than currentSlot; a block with
\* either error is not verified, and neither is recorded when the difference
\* is 0 or blockSlotWindow.
SlotWindowChecked ==
    verifier.call = "verifyReceipt" =>
        /\ Recorded("Block slot is too old") <=> SlotsBehind > blockSlotWindow
        /\ Recorded("Block slot is in the future") <=> SlotsBehind < 0
        /\ (SlotsBehind > blockSlotWindow \/ SlotsBehind < 0) => ~ verifier.result.verified

\* C28 witness: verifyReceipt verified a block whose slot is exactly
\* blockSlotWindow slots behind the current slot.
OldestSlotOfWindowVerified ==
    /\ verifier.call = "verifyReceipt"
    /\ SlotsBehind = blockSlotWindow
    /\ verifier.result.verified

\* C29: verifyBlock records 'Invalid block timestamp', and the block is not
\* verified, exactly when slot(block.timestamp) is not strictly greater than
\* slot(lastBlock.timestamp) or is greater than the current slot.
BlockSlotChecked ==
    verifier.call = "verifyBlock" =>
        LET slot == getSlotNumber(verifier.given.timestamp)
            inside == /\ slot > getSlotNumber(LastBlockTimestamp)
                      /\ slot <= getSlotNumber(Now)
        IN  /\ Recorded("Invalid block timestamp") <=> ~ inside
            /\ ~ inside => ~ verifier.result.verified

\* C29 witness: verifyBlock refused a block in the slot of the last block, and
\* for no other reason.
SlotOfLastBlockRefused ==
    /\ verifier.call = "verifyBlock"
    /\ getSlotNumber(verifier.given.timestamp) = getSlotNumber(LastBlockTimestamp)
    /\ verifier.result.errors = << Error("Invalid block timestamp", "") >>

(***************************************************************************)
(* processBlock on its own: one block is processed                          *)
(***************************************************************************)
\* Verify.prototype.onBind
OnBind ==
    /\ ~ processor.loaded
    /\ processor' = [processor EXCEPT !.loaded = TRUE]
    /\ UNCHANGED poolVars
    /\ UNCHANGED << sequencer, verifier, chain >>

ProcessBlock ==
    /\ processor.stage = "none"
    /\ \E block \in ProcessedBlocks, broadcast \in BOOLEAN, saveBlock \in BOOLEAN,
          verify \in BOOLEAN, isCleaning \in BOOLEAN :
           processor' = processBlock(processor, block, broadcast, saveBlock, verify,
                                     isCleaning)
    /\ UNCHANGED poolVars
    /\ UNCHANGED << sequencer, verifier, chain >>

AddBlockPropertiesDone ==
    /\ processor.stage = "addBlockProperties"
    /\ \E threw \in BOOLEAN : processor' = addBlockProperties(processor, threw)
    /\ UNCHANGED poolVars
    /\ UNCHANGED << sequencer, verifier, chain >>

NormalizeBlockDone ==
    /\ processor.stage = "normalizeBlock"
    /\ \E threw \in BOOLEAN : processor' = normalizeBlock(processor, threw)
    /\ UNCHANGED poolVars
    /\ UNCHANGED << sequencer, verifier, chain >>

VerifyBlockDone ==
    /\ processor.stage = "verifyBlock"
    /\ processor' = privateVerifyBlock(processor)
    /\ UNCHANGED poolVars
    /\ UNCHANGED << sequencer, verifier, chain >>

CheckExistsDone ==
    /\ processor.stage = "checkExists"
    /\ \E rows \in {"none", "some", "rejected"} : processor' = checkExists(processor, rows)
    /\ UNCHANGED poolVars
    /\ UNCHANGED << sequencer, verifier, chain >>

ValidateBlockSlotDone ==
    /\ processor.stage = "validateBlockSlot"
    /\ \E err \in BOOLEAN : processor' = validateBlockSlot(processor, err)
    /\ UNCHANGED poolVars
    /\ UNCHANGED << sequencer, verifier, chain >>

\* transaction.verify reports a confirmed transaction only when it is told to
\* look the transaction up, which checkTransactions does for saveBlock
CheckTransactionDone ==
    /\ processor.stage = "checkTransactions"
    /\ processor.block.transactions # << >>
    /\ \E err \in {"none", "verify failed"} \cup
                  (IF processor.saveBlock THEN {"Transaction is already confirmed"} ELSE {}) :
           processor' = checkTransaction(processor, err)
    /\ UNCHANGED poolVars
    /\ UNCHANGED << sequencer, verifier, chain >>

CheckNoTransactionsDone ==
    /\ processor.stage = "checkTransactions"
    /\ processor.block.transactions = << >>
    /\ processor' = checkNoTransactions(processor)
    /\ UNCHANGED poolVars
    /\ UNCHANGED << sequencer, verifier, chain >>

UndoUnconfirmedDone ==
    /\ processor.stage = "undoUnconfirmed"
    /\ processor' = undoUnconfirmedCallback(processor)
    /\ UNCHANGED poolVars
    /\ UNCHANGED << sequencer, verifier, chain >>

ApplyBlockDone ==
    /\ processor.stage = "applyBlock"
    /\ \E err \in BOOLEAN : processor' = applyBlock(processor, err)
    /\ UNCHANGED poolVars
    /\ UNCHANGED << sequencer, verifier, chain >>

UpdateSystemHeadersDone ==
    /\ processor.stage = "updateSystemHeaders"
    /\ \E err \in BOOLEAN : processor' = updateSystemHeaders(processor, err)
    /\ UNCHANGED poolVars
    /\ UNCHANGED << sequencer, verifier, chain >>

NextProcess ==
    \/ OnBind
    \/ ProcessBlock
    \/ AddBlockPropertiesDone
    \/ NormalizeBlockDone
    \/ VerifyBlockDone
    \/ CheckExistsDone
    \/ ValidateBlockSlotDone
    \/ CheckTransactionDone
    \/ CheckNoTransactionsDone
    \/ UndoUnconfirmedDone
    \/ ApplyBlockDone
    \/ UpdateSystemHeadersDone

SpecProcess == Init /\ [][NextProcess]_vars

\* the stages invoked are in the order of Stages
InStageOrder(invoked) ==
    \A i, j \in DOMAIN invoked :
        i < j => IndexOf(Stages, invoked[i]) < IndexOf(Stages, invoked[j])

\* C30: processBlock invokes its stages in the order addBlockProperties,
\* normalize, verifyBlock (when verify), checkExists (when saveBlock),
\* validateBlockSlot, checkTransactions, applyBlock and invokes nothing after
\* the stage that found an error; applyBlock is not invoked and the ledger is
\* not written for a block that failed verifyBlock, exists already, failed the
\* slot validation or whose transactions failed the check, nor for a call
\* made while the node is cleaning up or not loaded.
ProcessBlockStaged ==
    /\ InStageOrder(processor.invoked)
    /\ processor.failed # "none" => Last(processor.invoked) = processor.failed
    /\ (processor.verify /\ ~ verifyBlock(processor.block, ProcessedOnHeight).verified)
           => processor.ledger = << >>
    /\ processor.failed \in {"addBlockProperties", "normalizeBlock", "verifyBlock",
                             "checkExists", "validateBlockSlot", "checkTransactions"}
           => processor.ledger = << >>
    /\ processor.cb \in {"Cleaning up", "Blockchain is loading"}
           => processor.invoked = << >> /\ processor.ledger = << >>
    /\ IndexOf(processor.invoked, "applyBlock") # 0 => processor.loaded

(***************************************************************************)
(* Properties of the queue's process() cycle                               *)
(***************************************************************************)
\* C31: in every state of queue and pool reshuffle() returns, and when it
\* does conflictedQueue is empty.
ReshuffleTerminates ==
    LET s1 == Reshuffle(Cur)
    IN  ~ s1.hung /\ s1.conflictedQueue = << >>

\* trs is out of the pipeline in state s: in no queue, not in the pool, in no
\* process() cycle, and DECLINED
Discarded(s, trs) ==
    /\ trs \notin Range(s.queue)
    /\ trs \notin Range(s.conflictedQueue)
    /\ trs \notin s.pool
    /\ \A k \in DOMAIN s.tasks : s.tasks[k].kind = "process" => s.tasks[k].trs # trs
    /\ s.status[trs] = "DECLINED"

\* the transaction of the cycle tasks[i] is nowhere else in the pipeline: no
\* caller has submitted it a second time or pushed it into the pool
OnlyInCycle(i) ==
    /\ tasks[i].trs \notin Range(queue) \cup Range(conflictedQueue)
    /\ \A k \in DOMAIN tasks : k # i => tasks[k].trs # tasks[i].trs
    /\ tasks[i].pc # "newApplyUnconfirmed" => tasks[i].trs \notin pool

\* C32: when verify or applyUnconfirmed fails for the transaction of a
\* process() cycle, the cycle leaves it DECLINED and out of queue,
\* conflictedQueue and pool, and does not verify or apply it again.
DeclinedDiscarded ==
    \A i \in ProcessCycles :
        OnlyInCycle(i) =>
            /\ tasks[i].pc \in {"newVerify", "newVerifyUnconfirmed"}
                   => Discarded(VerifyFailed(WithoutTask(Cur, i), tasks[i].trs),
                                tasks[i].trs)
            /\ tasks[i].pc = "newApplyUnconfirmed"
                   => Discarded(ProcessPushSettled(WithoutTask(Cur, i), tasks[i].trs,
                                                   FALSE, tasks[i].gone), tasks[i].trs)

\* the cycles suspended in one of the two phases of verify
VerifyingCycles ==
    {i \in ProcessCycles : tasks[i].pc \in {"newVerify", "newVerifyUnconfirmed"}}

\* what the call did to trs, by name of the event
EventsAbout(events, name, trs) ==
    {k \in DOMAIN events : events[k].e = name /\ events[k].trs = trs}

\* C33: when a phase of verify fails for the transaction of a process()
\* cycle, the transaction gets status DECLINED and is in none of queue,
\* conflictedQueue and pool; no applyUnconfirmed is called and no
\* transactionPutInPool emitted for it, the sender's session is sent one
\* pool/verify message with verified = false, and the cycle goes on with the
\* next queued transaction.
VerifyFailureDrops ==
    \A i \in VerifyingCycles :
        LET trs == tasks[i].trs
            s1 == VerifyFailed(WithoutTask(Cur, i), trs)
            sent == EventsAbout(s1.ev, "pool/verify", trs)
        IN  /\ s1.status[trs] = "DECLINED"
            /\ trs \notin Range(s1.queue) \cup Range(s1.conflictedQueue)
            /\ trs \notin s1.pool
            /\ EventsAbout(s1.ev, "newApplyUnconfirmed", trs) = {}
            /\ EventsAbout(s1.ev, "transactionPutInPool", trs) = {}
            /\ Cardinality(sent) = 1
            /\ \A k \in sent : ~ s1.ev[k].res /\ s1.ev[k].why = SenderId(trs)
            /\ (queue # << >> /\ ~ queueLocked) => Len(s1.queue) < Len(queue)

\* the pool/verify messages of s.ev about trs are exactly one, to the address
\* of the sender of trs, carrying verified
OnePoolVerifyMessage(s, trs, verified) ==
    LET sent == EventsAbout(s.ev, "pool/verify", trs)
    IN  /\ Cardinality(sent) = 1
        /\ \A k \in sent : s.ev[k].res = verified /\ s.ev[k].why = SenderId(trs)

\* the calls of newVerifyUnconfirmed under way in s
InVerifyUnconfirmed(s) ==
    {k \in DOMAIN s.tasks : s.tasks[k].pc = "newVerifyUnconfirmed"}

\* C34: verify runs newVerify, then newVerifyUnconfirmed unless newVerify
\* threw; when a phase throws it sends one pool/verify message with verified =
\* false to the sender's address and process() treats the transaction as not
\* verified; when both pass it sends one message with verified = true and
\* process() goes on to the pool with the transaction.
VerifyReportsOnce ==
    \A i \in VerifyingCycles :
        LET trs == tasks[i].trs
            s0 == WithoutTask(Cur, i)
            failed == VerifyFailed(s0, trs)
            passed == Verified(s0, trs)
        IN  /\ OnePoolVerifyMessage(failed, trs, FALSE)
            /\ EventsAbout(failed.ev, "push", trs) = {}
            /\ EventsAbout(failed.ev, "newApplyUnconfirmed", trs) = {}
            /\ Cardinality(InVerifyUnconfirmed(failed)) = Cardinality(InVerifyUnconfirmed(s0))
            /\ tasks[i].pc = "newVerifyUnconfirmed" =>
                   /\ OnePoolVerifyMessage(passed, trs, TRUE)
                   /\ ~ queueLocked =>
                          \/ EventsAbout(passed.ev, "push", trs) # {}
                          \/ EventsAbout(passed.ev, "newApplyUnconfirmed", trs) # {}

\* C34 witness: newVerify has passed for a transaction and the cycle is
\* suspended in newVerifyUnconfirmed; if it passes too, the message carries
\* verified = true and the transaction is applied.
BothPhasesCanPass ==
    \E i \in VerifyingCycles :
        /\ tasks[i].pc = "newVerifyUnconfirmed"
        /\ ~ queueLocked
        /\ LET passed == Verified(WithoutTask(Cur, i), tasks[i].trs)
           IN  /\ OnePoolVerifyMessage(passed, tasks[i].trs, TRUE)
               /\ EventsAbout(passed.ev, "newApplyUnconfirmed", tasks[i].trs) # {}

\* the number of entries of trs in a list
CountIn(list, trs) == Cardinality({k \in DOMAIN list : list[k] = trs})

\* process() would dequeue a transaction and find it in conflict
HeadConflicts ==
    /\ queue # << >> /\ ~ queueLocked
    /\ ~ Has(Cur, Head(queue))
    /\ isPotentialConflict(Cur, Head(queue))

\* what process() does with a dequeued transaction that conflicts
ConflictingHeadParked ==
    HeadConflicts =>
        LET trs == Head(queue)
            s1 == Process(Cur)
        IN  /\ CountIn(s1.conflictedQueue, trs) > CountIn(conflictedQueue, trs)
            /\ s1.status[trs] = "QUEUED_AS_CONFLICTED"
            /\ s1.ev = << >>
            /\ s1.pool = pool
            /\ \A k \in DOMAIN s1.tasks : k > Len(tasks) => s1.tasks[k].trs # trs

\* an entry has left conflictedQueue in this step
LeavesConflictedQueue ==
    \E t \in Tx : CountIn(conflictedQueue', t) < CountIn(conflictedQueue, t)

\* C35: a dequeued transaction for which isPotentialConflict is true is
\* appended to conflictedQueue with status QUEUED_AS_CONFLICTED, without a
\* lookup of the sender and without verify or applyUnconfirmed, and an entry
\* leaves conflictedQueue only in a call of reshuffle().
ConflictedWaitForReshuffle ==
    /\ [] ConflictingHeadParked
    /\ [][LeavesConflictedQueue => ReshuffleTransactionQueue]_vars

\* C35 witness: the pipeline has come to rest with a transaction parked in
\* conflictedQueue.
ParkedAtRest ==
    /\ conflictedQueue # << >>
    /\ \A k \in DOMAIN conflictedQueue : status[conflictedQueue[k]] = "QUEUED_AS_CONFLICTED"
    /\ queue = << >> /\ tasks = << >>
    /\ ~ hung

\* a call of reshuffle() returns, and whatever it parks again is in conflict
\* with the pool
ReshuffleParksConflictsOnly ==
    ReshuffleTransactionQueue =>
        /\ ~ hung'
        /\ \A t \in Range(conflictedQueue') :
               isPotentialConflict([Cur EXCEPT !.pool = pool',
                                               !.poolBySender = poolBySender',
                                               !.poolByRecipient = poolByRecipient'], t)

\* with nothing locked, a transaction of the cycle that is not in conflict and
\* passes both phases of verify is in the pool when the cycle goes on
VerifiedEndsInPool ==
    \A i \in VerifyingCycles :
        (/\ OnlyInCycle(i)
         /\ ~ queueLocked /\ ~ poolLocked
         /\ ~ isPotentialConflict(Cur, tasks[i].trs)) =>
            tasks[i].trs \in Verified(WithoutTask(Cur, i), tasks[i].trs).pool

\* C36: a call of reshuffle() returns and the process() cycle then drains so
\* that conflictedQueue holds only transactions found in conflict with the pool
\* again, and a re-queued transaction that is not in conflict and verifies ends
\* in the pool.
ReshuffleThenDrain ==
    /\ [][ReshuffleParksConflictsOnly]_vars
    /\ [] VerifiedEndsInPool

\* no entry of the list sorts after a later one
InSortOrder(list) ==
    \A i, j \in 1..Len(list) : i < j => transactionSortFunc(list[i], list[j]) <= 0

\* what Queue.push(trs) does to the queue as it is now
PushKicksOrSorts ==
    \A trs \in Tx :
        LET s1 == QueuePush(Cur, trs)
        IN  IF queue = << >>
            THEN s1 = Process([Cur EXCEPT !.status[trs] = "QUEUED", !.queue = << trs >>])
            ELSE /\ Len(s1.queue) = Len(queue) + 1
                 /\ \A t \in Tx : CountIn(s1.queue, t) =
                                      CountIn(queue, t) + (IF t = trs THEN 1 ELSE 0)
                 /\ InSortOrder(s1.queue)
                 /\ s1.tasks = tasks
                 /\ s1.conflictedQueue = conflictedQueue
                 /\ s1.pool = pool

\* C37: queue is in ascending transactionSortFunc order in every reachable
\* state, so process() dequeues a smallest queued transaction; a push onto an
\* empty queue runs process() and a push onto a non-empty queue only adds the
\* transaction and sorts.
QueueSorted ==
    /\ InSortOrder(queue)
    /\ queue # << >> =>
           \A t \in Range(queue) : transactionSortFunc(Head(queue), t) <= 0
    /\ PushKicksOrSorts

\* C37 witness: three transactions wait in the queue, in sort order and not in
\* the order of their ids.
QueueOfThreeSorted == queue = << 1, 3, 2 >>

(***************************************************************************)
(* Properties of the removals                                              *)
(***************************************************************************)
\* the call whose task is the last one runs on alone until it returns, every
\* newUndoUnconfirmed settling with `ok`
RECURSIVE RunAlone(_, _, _)
RunAlone(s, n, ok) ==
    IF Len(s.tasks) <= n THEN s
    ELSE LET i == Len(s.tasks)
         IN  RunAlone(RemoveLoopSettled(WithoutTask(s, i), s.tasks[i], ok), n, ok)

\* the list a call of removeFromPool returned in the step that left s
Returned(s) ==
    LET k == CHOOSE k \in DOMAIN s.ev : s.ev[k].e = "removeFromPool"
    IN  s.ev[k].list

\* removeTransactionBySenderId(a) and then removeTransactionByRecipientId(a),
\* called now and run alone
BucketsRemoved(a, owner, ok) ==
    LET s1 == RunAlone(removeFromPool(Cur, << owner >>, TRUE), Len(tasks), ok)
    IN  /\ Returned(s1) = poolBySender[a] \o poolByRecipient[a]
        /\ s1.poolBySender[a] = << >>
        /\ s1.poolByRecipient[a] = << >>
        /\ Range(Returned(s1)) \cap s1.pool = {}

\* C38: removeTransactionBySenderId(id) and removeTransactionByRecipientId(id)
\* remove every transaction that was in the bucket of id when the call started
\* and return exactly those, skipping none; when no push interleaves, the
\* bucket is empty afterwards and none of the returned transactions is in byId.
BucketRemovalComplete ==
    \A owner \in Tx, ok \in BOOLEAN : BucketsRemoved(SenderId(owner), owner, ok)

\* the suspended calls that wait for `name` of trs
Awaiting(name, trs) ==
    {i \in DOMAIN tasks : tasks[i].pc = name /\ tasks[i].trs = trs}

\* no two removals of trs are inside newUndoUnconfirmed together
NoOverlappingUndo ==
    \A trs \in Tx : Cardinality(Awaiting("newUndoUnconfirmed", trs)) <= 1

\* newUndoUnconfirmed of trs is not running while the newApplyUnconfirmed of
\* the push that inserted trs is still running
NoUndoBeforeApplied ==
    \A trs \in Tx :
        Awaiting("newUndoUnconfirmed", trs) # {} =>
            \A i \in Awaiting("newApplyUnconfirmed", trs) : tasks[i].gone

\* C39: for any one transaction, undoUnconfirmed is invoked at most once per
\* successful applyUnconfirmed and never before that applyUnconfirmed has
\* completed, whatever the interleaving of the removals and pushes: two
\* overlapping removals of one transaction do not both undo it.
UndoOncePerApply ==
    /\ NoOverlappingUndo
    /\ NoUndoBeforeApplied

(***************************************************************************)
(* The queue's cycle against the pool's own lock                           *)
(***************************************************************************)
\* TransactionPool.lock, lines 33-35
PoolLock ==
    /\ calls < MaxCalls
    /\ Call([Cur EXCEPT !.poolLocked = TRUE])

\* TransactionPool.unlock, lines 37-39
PoolUnlock ==
    /\ calls < MaxCalls
    /\ Call([Cur EXCEPT !.poolLocked = FALSE])

NextCycle ==
    \/ PutInQueue
    \/ PoolLock
    \/ PoolUnlock
    \/ GetOrCreateAccountDone
    \/ NewVerifyDone
    \/ NewVerifyUnconfirmedDone
    \/ NewApplyUnconfirmedDone

\* every suspended call is resumed in the end
SpecCycle == Init /\ [][NextCycle]_vars /\ WF_vars(NextResume)

\* C40: when no new transaction arrives the process() cycles come to rest,
\* also when pool.push keeps returning false for a verified transaction: no
\* cycle dequeues, verifies and re-enqueues a transaction for ever.
CycleQuiesces == <>[](ProcessCycles = {})

====
